---- MODULE Spec2Model ----
(***************************************************************************)
(* State-machine model of weathered-chaos: the publish/subscribe bus       *)
(* (EventManager.py), the crossing latch of the visualizer                 *)
(* (Visualizer.py, _update_node_states) and the pendulum ensemble          *)
(* (PendulumSystem.py).                                                    *)
(*                                                                         *)
(* Fixed-point units: masses and lengths in tenths, gravity in hundredths  *)
(* of m/s^2, angles in milliradians, angular velocities in milliradians    *)
(* per second, temperature factors and sines in thousandths, temperatures  *)
(* in tenths of a degree Celsius, time steps                               *)
(* in milliseconds, screen positions in hundredths of a pixel.             *)
(***************************************************************************)
EXTENDS Integers, Sequences, FiniteSets, TLC

VARIABLES
    subscribers,      \* EventManager._subscribers: kind -> set of callbacks
    stack,            \* active publish() calls, innermost last
    invoked,          \* history: calls received per callback since the outermost
                      \* publish began (0, 1, or 2 for two or more)
    raised,           \* the outermost publish ended with an exception
    reentered,        \* a handler called the bus during the current outermost publish
    busPc,            \* "idle" | "dispatching" | "returned"
    lastEvent,        \* kind of the outermost publish
    subCount,         \* history: subscribe() calls per (kind, callback) since its last
                      \* unsubscribe() (0, 1, or 2 for two or more)
    double_pendulums, \* PendulumSystem.double_pendulums
    g,                \* PendulumSystem.g
    temperature,      \* PendulumSystem.temperature
    mass_range,       \* PendulumSystem.mass_range
    length_range,     \* PendulumSystem.length_range
    moon_mode,        \* Config.moon_mode
    nops,             \* number of ensemble operations made so far
    lastOp,           \* history: the last operation and its argument
    pre,              \* history: the ensemble as it was when the last operation began
    sinceFire,        \* history, per node: "none" | "near" | "far" (see UpdateNodeStates)
    config,           \* the class attributes of Config other than moon_mode
    weather_api,      \* WeatherAPI: location, temperature, weather_condition
    appStack,         \* publish() calls of the application in progress, innermost last
    edit,             \* history of the user edit being dispatched (see NewEdit)
    frame,            \* the main loop's position in its frame, and the frames completed
    audio,            \* the audio callback's position in generate_latents and its reads
    pump,             \* history: the last call of process_pygame_events
    midi,             \* MIDISonifier: key, scale, mode, allowed notes, notes sent
    view,             \* the visualizer's three texts and its background colour
    rave              \* RAVESonifier: the weights of the model it has loaded

busVars == <<subscribers, stack, invoked, raised, reentered, busPc, lastEvent, subCount>>
sysVars == <<double_pendulums, g, temperature, mass_range, length_range, moon_mode,
             nops, lastOp, pre, sinceFire>>
appVars == <<config, weather_api, appStack, edit>>
audioVars == <<frame, audio>>
uiVars == <<pump, midi, view, rave>>
envVars == <<config, weather_api, appStack, edit, frame, audio, pump, midi, view, rave>>
vars == <<subscribers, stack, invoked, raised, reentered, busPc, lastEvent, subCount,
          double_pendulums, g, temperature, mass_range, length_range, moon_mode,
          nops, lastOp, pre, sinceFire,
          config, weather_api, appStack, edit, frame, audio,
          pump, midi, view, rave>>

\* Python's None, for the optional numbers (temperature, last_x): a value no
\* temperature and no screen position takes.
None == -1000000

(***************************************************************************)
(* Bounds                                                                  *)
(***************************************************************************)
NumCallbacks == 2
MaxDepth == 2
MaxVisits == 3
MaxN == 2
MaxOps == 3
MaxFrames == 2

(***************************************************************************)
(* EventManager                                                            *)
(***************************************************************************)
EventType ==
    {"LOCATION_CHANGED", "WEATHER_UPDATED", "MOON_MODE_CHANGED",
     "PENDULUM_COUNT_CHANGED", "MASS_RANGE_CHANGED", "LENGTH_RANGE_CHANGED",
     "MUSIC_SETTINGS_CHANGED", "PYGAME_EVENT", "WEATHER_FETCH_ERROR"}

\* The kinds the generic bus exploration publishes and subscribes to.
BusKinds == {"WEATHER_UPDATED", "MUSIC_SETTINGS_CHANGED"}

Callbacks == 1..NumCallbacks

\* The history counters saturate: 2 stands for two or more.
Bump(n) == IF n < 2 THEN n + 1 ELSE n

\* EventManager.__new__: one empty set per event type.
NewSubscribers == [k \in EventType |-> {}]

\* EventManager.subscribe: set.add
subscribe(subs, k, c) == [subs EXCEPT ![k] = @ \cup {c}]

\* A variant of unsubscribe that forgets to remove the callback.
unsubscribe_keeps(subs, k, c) == subs

\* EventManager.unsubscribe: remove when present
unsubscribe(subs, k, c) ==
    IF c \in subs[k] THEN [subs EXCEPT ![k] = @ \ {c}] ELSE subs

\* publish() starts iterating the set: the iterator remembers the set's size
\* (si_used); `dirty` records that the set was modified while iterating.
NewFrame(subs, k) ==
    [kind |-> k, used |-> Cardinality(subs[k]), visited |-> {}, dirty |-> FALSE, n |-> 0]

\* Frames iterating over a kind whose set has just been modified become dirty.
MarkDirty(stk, k, changed) ==
    [i \in 1..Len(stk) |->
        IF changed /\ stk[i].kind = k THEN [stk[i] EXCEPT !.dirty = TRUE] ELSE stk[i]]

Top == stack[Len(stack)]

\* The set iterator's size check, made on every next(), the last one included.
SizeChanged(f) == Cardinality(subscribers[f.kind]) # f.used

\* Callbacks the iterator can yield next. An unmodified set yields each member
\* once; a set modified in place (same size) is iterated by table position, so
\* any member may come next, members already visited included.
Candidates(f) ==
    IF f.dirty THEN (IF f.n < MaxVisits THEN subscribers[f.kind] ELSE {})
    ELSE subscribers[f.kind] \ f.visited

Visit(stk, c) ==
    [stk EXCEPT ![Len(stk)] = [@ EXCEPT !.visited = @ \cup {c}, !.n = @ + 1]]

\* subscribe() called from the main loop, outside any dispatch.
Subscribe(k, c) ==
    /\ busPc # "dispatching"
    /\ subscribers' = subscribe(subscribers, k, c)
    /\ subCount' = [subCount EXCEPT ![k][c] = Bump(@)]
    /\ busPc' = "idle"
    /\ UNCHANGED <<stack, invoked, raised, reentered, lastEvent>>
    /\ UNCHANGED sysVars
    /\ UNCHANGED envVars

\* unsubscribe() called outside any dispatch.
Unsubscribe(k, c) ==
    /\ busPc # "dispatching"
    /\ subscribers' = unsubscribe(subscribers, k, c)
    /\ subCount' = [subCount EXCEPT ![k][c] = 0]
    /\ busPc' = "idle"
    /\ UNCHANGED <<stack, invoked, raised, reentered, lastEvent>>
    /\ UNCHANGED sysVars
    /\ UNCHANGED envVars

\* publish(event) called outside any dispatch: the for loop begins.
Publish(k) ==
    /\ busPc # "dispatching"
    /\ stack' = <<NewFrame(subscribers, k)>>
    /\ invoked' = [c \in Callbacks |-> 0]
    /\ raised' = FALSE
    /\ reentered' = FALSE
    /\ lastEvent' = k
    /\ busPc' = "dispatching"
    /\ UNCHANGED <<subscribers, subCount>>
    /\ UNCHANGED sysVars
    /\ UNCHANGED envVars

\* The loop yields c and c(event) runs to completion without touching the bus.
DispatchInert(c) ==
    /\ busPc = "dispatching"
    /\ ~SizeChanged(Top)
    /\ c \in Candidates(Top)
    /\ stack' = Visit(stack, c)
    /\ invoked' = [invoked EXCEPT ![c] = Bump(@)]
    /\ UNCHANGED <<subscribers, raised, reentered, busPc, lastEvent, subCount>>
    /\ UNCHANGED sysVars
    /\ UNCHANGED envVars

\* The loop yields c and c(event) calls subscribe(k2, c2).
DispatchSubscribe(c, k2, c2) ==
    /\ busPc = "dispatching"
    /\ ~SizeChanged(Top)
    /\ c \in Candidates(Top)
    /\ subscribers' = subscribe(subscribers, k2, c2)
    /\ subCount' = [subCount EXCEPT ![k2][c2] = Bump(@)]
    /\ stack' = MarkDirty(Visit(stack, c), k2, c2 \notin subscribers[k2])
    /\ invoked' = [invoked EXCEPT ![c] = Bump(@)]
    /\ reentered' = TRUE
    /\ UNCHANGED <<raised, busPc, lastEvent>>
    /\ UNCHANGED sysVars
    /\ UNCHANGED envVars

\* The loop yields c and c(event) calls unsubscribe(k2, c2).
DispatchUnsubscribe(c, k2, c2) ==
    /\ busPc = "dispatching"
    /\ ~SizeChanged(Top)
    /\ c \in Candidates(Top)
    /\ subscribers' = unsubscribe(subscribers, k2, c2)
    /\ subCount' = [subCount EXCEPT ![k2][c2] = 0]
    /\ stack' = MarkDirty(Visit(stack, c), k2, c2 \in subscribers[k2])
    /\ invoked' = [invoked EXCEPT ![c] = Bump(@)]
    /\ reentered' = TRUE
    /\ UNCHANGED <<raised, busPc, lastEvent>>
    /\ UNCHANGED sysVars
    /\ UNCHANGED envVars

\* The loop yields c and c(event) calls publish(Event(k2)): a nested loop begins
\* (as MIDISonifier._on_weather_changed does with MUSIC_SETTINGS_CHANGED).
DispatchPublish(c, k2) ==
    /\ busPc = "dispatching"
    /\ ~SizeChanged(Top)
    /\ c \in Candidates(Top)
    /\ Len(stack) < MaxDepth
    /\ stack' = Append(Visit(stack, c), NewFrame(subscribers, k2))
    /\ invoked' = [invoked EXCEPT ![c] = Bump(@)]
    /\ reentered' = TRUE
    /\ UNCHANGED <<subscribers, raised, busPc, lastEvent, subCount>>
    /\ UNCHANGED sysVars
    /\ UNCHANGED envVars

\* The iterator is exhausted: the innermost publish returns to its caller.
DispatchReturn ==
    /\ busPc = "dispatching"
    /\ ~SizeChanged(Top)
    /\ Top.dirty \/ Candidates(Top) = {}
    /\ stack' = SubSeq(stack, 1, Len(stack) - 1)
    /\ busPc' = IF Len(stack) = 1 THEN "returned" ELSE "dispatching"
    /\ UNCHANGED <<subscribers, invoked, raised, reentered, lastEvent, subCount>>
    /\ UNCHANGED sysVars
    /\ UNCHANGED envVars

\* next() finds the set's size changed: RuntimeError("Set changed size during
\* iteration") propagates through every handler and publish on the stack.
DispatchRaise ==
    /\ busPc = "dispatching"
    /\ SizeChanged(Top)
    /\ stack' = <<>>
    /\ raised' = TRUE
    /\ busPc' = "returned"
    /\ UNCHANGED <<subscribers, invoked, reentered, lastEvent, subCount>>
    /\ UNCHANGED sysVars
    /\ UNCHANGED envVars

(***************************************************************************)
(* Fixed-point arithmetic                                                  *)
(***************************************************************************)
Abs(x) == IF x < 0 THEN -x ELSE x

\* Division rounding toward zero (b > 0).
Div(a, b) == IF a >= 0 THEN a \div b ELSE -((-a) \div b)

Pi == 3142
TwoPi == 6283
HalfPi == 1571

\* Bhaskara's approximation of sin on [0, pi], in thousandths.
SinHalfTurn(x) ==
    LET p == x * (Pi - x)
    IN  (1600 * (p \div 10)) \div ((5 * Pi * Pi - 4 * p) \div 100)

\* math.sin of an angle in milliradians, in thousandths.
Sin(x) ==
    LET y == x % TwoPi
    IN  IF y <= Pi THEN SinHalfTurn(y) ELSE -SinHalfTurn(y - Pi)

\* math.cos
Cos(x) == Sin(x + HalfPi)

\* Integer square root by bisection: the largest r in lo..hi with r*r <= x.
RECURSIVE ISqrtIn(_, _, _)
ISqrtIn(x, lo, hi) ==
    IF lo >= hi THEN lo
    ELSE LET mid == (lo + hi + 1) \div 2
         IN  IF mid * mid <= x THEN ISqrtIn(x, mid, hi) ELSE ISqrtIn(x, lo, mid - 1)

\* math.sqrt(num / den), in thousandths.
SqrtRatio(num, den) == ISqrtIn((num * 1000000) \div den, 0, 46340)

(***************************************************************************)
(* PendulumSystem.py                                                       *)
(***************************************************************************)
MAX_ANGULAR_VELOCITY == 10000
DAMPING_FACTOR == 90

\* The gravities the application passes (Visualizer._on_moon_mode_changed).
Gravities == {162, 981}
\* Temperatures of WEATHER_UPDATED events.
Temperatures == {0, 350}
\* Temperatures the ensemble is constructed with (None: no temperature given).
InitTemperatures == {None, 150}
\* Mass and length variation ranges (the sidebar sliders span 0 .. 0.5).
Ranges == {0, 5}
\* PendulumSystem.angle_range, the constructor's default (-0.1, 0.1).
angle_range == <<-100, 100>>
\* Time steps passed to step().
TimeSteps == {10, 1000}

\* The pseudo-random stream an operation draws from: the i-th call of
\* random.uniform(lo, hi) made by the operation returns Sample(r, i, lo, hi).
RandomStreams == {0, 1}
Sample(r, i, lo, hi) == IF (r + i) % 2 = 0 THEN lo ELSE hi

\* Node.__init__
Node == [active |-> FALSE, triggered |-> FALSE, last_x |-> None]

\* Pendulum.__init__
Pendulum(length, mass, angle) ==
    [length |-> length, mass |-> mass, angle |-> angle, angular_velocity |-> 0,
     node |-> Node]

\* A clamp that lets every velocity through.
ClampNothing(w) == w

\* max(-MAX_ANGULAR_VELOCITY, min(w, MAX_ANGULAR_VELOCITY))
Clamp(w) ==
    IF w > MAX_ANGULAR_VELOCITY THEN MAX_ANGULAR_VELOCITY
    ELSE IF w < -MAX_ANGULAR_VELOCITY THEN -MAX_ANGULAR_VELOCITY
    ELSE w

\* A temperature factor that does not look at Config.moon_mode and whose
\* ceiling starts at 30 degrees.
calculate_temperature_factor_early(moon, temperature_celsius) ==
    IF temperature_celsius <= 0 THEN 250
    ELSE IF temperature_celsius >= 300 THEN 2000
    ELSE 250 + (temperature_celsius * 1750) \div 350

\* DoublePendulum.calculate_temperature_factor
calculate_temperature_factor(moon, temperature_celsius) ==
    LET min_temperature_factor == 250
        max_temperature_factor == 2000
        min_temperature == 0
        max_temperature == 350
    IN  IF moon THEN 1000
        ELSE IF temperature_celsius <= min_temperature THEN min_temperature_factor
        ELSE IF temperature_celsius >= max_temperature THEN max_temperature_factor
        ELSE min_temperature_factor
             + (temperature_celsius * (max_temperature_factor - min_temperature_factor))
               \div max_temperature

\* DoublePendulum.__init__: six draws, starting at index i of stream r.
DoublePendulum(gv, temp, moon, mr, lr, ar, r, i) ==
    [pendulums |->
        <<Pendulum(Sample(r, i + 1, 10 - lr, 10 + lr),
                   Sample(r, i, 10 - mr, 10 + mr),
                   HalfPi + Sample(r, i + 2, ar[1], ar[2])),
          Pendulum(Sample(r, i + 4, 10 - lr, 10 + lr),
                   Sample(r, i + 3, 10 - mr, 10 + mr),
                   HalfPi + Sample(r, i + 5, ar[1], ar[2]))>>,
     g |-> gv,
     temperature_factor |->
        IF temp # None THEN calculate_temperature_factor(moon, temp) ELSE 1000]

\* w^2 * L, in hundredths of m/s^2.
WL(w, L) == (((w * w) \div 1000) * L) \div 100

\* DoublePendulum.step: the mass term shared by both denominators, in 1e-4.
MassTerm(dp) ==
    LET m1 == dp.pendulums[1].mass
        m2 == dp.pendulums[2].mass
    IN  (2 * m1 + m2) * 1000
        - m2 * Cos(2 * (dp.pendulums[1].angle - dp.pendulums[2].angle))

\* denom1 and denom2, in 1e-5.
Denom(dp, j) == dp.pendulums[j].length * MassTerm(dp)

\* d_w1 before the temperature factor, in tenths of rad/s^2.
AngularAcceleration1(dp) ==
    LET p1 == dp.pendulums[1]
        p2 == dp.pendulums[2]
        delta == p1.angle - p2.angle
        inner == WL(p2.angular_velocity, p2.length)
                 + Div(WL(p1.angular_velocity, p1.length) * Cos(delta), 1000)
        num == - Div(dp.g * (2 * p1.mass + p2.mass) * Sin(p1.angle), 10)
               - Div(p2.mass * dp.g * Sin(p1.angle - 2 * p2.angle), 10)
               - 2 * p2.mass * Div(Sin(delta) * inner, 10)
    IN  Div(num, Denom(dp, 1) \div 10)

\* d_w2 before the temperature factor, in tenths of rad/s^2.
AngularAcceleration2(dp) ==
    LET p1 == dp.pendulums[1]
        p2 == dp.pendulums[2]
        delta == p1.angle - p2.angle
        inner == WL(p1.angular_velocity, p1.length) * (p1.mass + p2.mass)
                 + Div(dp.g * (p1.mass + p2.mass) * Cos(p1.angle), 1000)
                 + Div(WL(p2.angular_velocity, p2.length) * p2.mass * Cos(delta), 1000)
        num == 2 * Sin(delta) * Div(inner, 10)
    IN  Div(num, Denom(dp, 2) \div 10)

\* DoublePendulum.step: body j's angular velocity after the Euler step and the
\* clamp.
ClampedVelocity(dp, dt, j) ==
    LET d_w == IF j = 1 THEN AngularAcceleration1(dp) ELSE AngularAcceleration2(dp)
    IN  Clamp(dp.pendulums[j].angular_velocity
              + Div(Div(d_w * dp.temperature_factor, 1000) * dt, 10))

\* DoublePendulum.step: body j's angle after its integration, before the
\* full-spin test.
IntegratedAngle(dp, dt, j) ==
    dp.pendulums[j].angle + Div(ClampedVelocity(dp, dt, j) * dt, 1000)

\* A step whose full-spin branch wraps the angle and leaves the velocity as
\* it is.
DoublePendulumStepUndamped(dp, dt) ==
    LET a1 == IntegratedAngle(dp, dt, 1)
    IN  [dp EXCEPT
            !.pendulums[1].angular_velocity = ClampedVelocity(dp, dt, 1),
            !.pendulums[1].angle = IF Abs(a1) >= TwoPi THEN a1 % TwoPi ELSE a1,
            !.pendulums[2].angular_velocity = ClampedVelocity(dp, dt, 2),
            !.pendulums[2].angle = IntegratedAngle(dp, dt, 2)]

\* DoublePendulum.step
DoublePendulumStep(dp, dt) ==
    LET w1 == ClampedVelocity(dp, dt, 1)
        w2 == ClampedVelocity(dp, dt, 2)
        a1 == IntegratedAngle(dp, dt, 1)
        a2 == IntegratedAngle(dp, dt, 2)
        spin == Abs(a1) >= TwoPi
    IN  [dp EXCEPT
            !.pendulums[1].angular_velocity =
                IF spin THEN Div(w1 * DAMPING_FACTOR, 100) ELSE w1,
            !.pendulums[1].angle = IF spin THEN a1 % TwoPi ELSE a1,
            !.pendulums[2].angular_velocity = w2,
            !.pendulums[2].angle = a2]

\* PendulumSystem.__init__: n simulators built from the constructor's arguments.
NewPendulums(n, gv, temp, moon, mr, lr, ar, r) ==
    [i \in 1..n |-> DoublePendulum(gv, temp, moon, mr, lr, ar, r, 6 * (i - 1))]

\* DoublePendulum.step divides by denom1 and denom2: a zero denominator raises
\* ZeroDivisionError before the simulator is changed.
Singular(dp) == Denom(dp, 1) = 0 \/ Denom(dp, 2) = 0

\* PendulumSystem.step when a simulator raises: the simulators before the first
\* singular one have been stepped, the others are as they were.
step_until_raise(dps, dt) ==
    LET singular == {i \in 1..Len(dps) : Singular(dps[i])}
        first == CHOOSE i \in singular : \A k \in singular : i <= k
    IN  [i \in 1..Len(dps) |->
            IF i < first THEN DoublePendulumStep(dps[i], dt) ELSE dps[i]]

\* PendulumSystem.step
step_all(dps, dt) == [i \in 1..Len(dps) |-> DoublePendulumStep(dps[i], dt)]

\* update_gravity_all rescaling the velocities without assigning the simulators' g.
update_gravity_keeps_g(dps, g_old, g_new) ==
    LET gravity_ratio == SqrtRatio(g_new, g_old)
    IN  [i \in 1..Len(dps) |->
            [dps[i] EXCEPT
                !.pendulums = [j \in 1..2 |->
                    [@[j] EXCEPT !.angular_velocity = Div(@ * gravity_ratio, 1000)]]]]

\* An update_gravity that clamps the rescaled velocities as step does.
update_gravity_clamped(dps, g_old, g_new) ==
    LET gravity_ratio == SqrtRatio(g_new, g_old)
    IN  [i \in 1..Len(dps) |->
            [dps[i] EXCEPT
                !.g = g_new,
                !.pendulums = [j \in 1..2 |->
                    [@[j] EXCEPT
                        !.angular_velocity = Clamp(Div(@ * gravity_ratio, 1000))]]]]

\* PendulumSystem.update_gravity: the simulators after the call.
update_gravity_all(dps, g_old, g_new) ==
    LET gravity_ratio == SqrtRatio(g_new, g_old)
    IN  [i \in 1..Len(dps) |->
            [dps[i] EXCEPT
                !.g = g_new,
                !.pendulums = [j \in 1..2 |->
                    [@[j] EXCEPT !.angular_velocity = Div(@ * gravity_ratio, 1000)]]]]

\* The end of the Python slice seq[:n] of a list of length len: a negative n
\* counts from the end of the list.
SliceEnd(n, len) ==
    IF n >= 0 THEN (IF n < len THEN n ELSE len)
    ELSE (IF len + n > 0 THEN len + n ELSE 0)

\* resize rebuilding the whole list when the ensemble grows.
resize_rebuilds(dps, n, gv, temp, moon, mr, lr, ar, r) ==
    IF n < Len(dps) THEN SubSeq(dps, 1, SliceEnd(n, Len(dps)))
    ELSE IF n > Len(dps) THEN NewPendulums(n, gv, temp, moon, mr, lr, ar, r)
    ELSE dps

\* PendulumSystem.update_number_of_pendulums: the simulators after the call.
resize(dps, n, gv, temp, moon, mr, lr, ar, r) ==
    IF n < Len(dps) THEN SubSeq(dps, 1, SliceEnd(n, Len(dps)))
    ELSE IF n > Len(dps)
         THEN dps \o NewPendulums(n - Len(dps), gv, temp, moon, mr, lr, ar, r)
         ELSE dps

\* update_mass_all drawing around 1.0 within twice the range.
update_mass_twice_range(dps, mr, r) ==
    [i \in 1..Len(dps) |->
        [dps[i] EXCEPT !.pendulums = [j \in 1..2 |->
            [@[j] EXCEPT !.mass =
                Sample(r, 2 * (i - 1) + j - 1, 10 - 2 * mr, 10 + 2 * mr)]]]]

\* PendulumSystem.update_mass_range: two draws per simulator.
update_mass_all(dps, mr, r) ==
    [i \in 1..Len(dps) |->
        [dps[i] EXCEPT !.pendulums = [j \in 1..2 |->
            [@[j] EXCEPT !.mass = Sample(r, 2 * (i - 1) + j - 1, 10 - mr, 10 + mr)]]]]

\* PendulumSystem.update_length_range: two draws per simulator.
update_length_all(dps, lr, r) ==
    [i \in 1..Len(dps) |->
        [dps[i] EXCEPT !.pendulums = [j \in 1..2 |->
            [@[j] EXCEPT !.length = Sample(r, 2 * (i - 1) + j - 1, 10 - lr, 10 + lr)]]]]

\* update_temperature_all multiplying by the new factor instead of the ratio.
update_temperature_no_ratio(dps, moon, t) ==
    [i \in 1..Len(dps) |->
        LET new_temperature_factor == calculate_temperature_factor(moon, t)
        IN  [dps[i] EXCEPT
                !.pendulums = [j \in 1..2 |->
                    [@[j] EXCEPT !.angular_velocity =
                        Clamp(Div(@ * new_temperature_factor, 1000))]],
                !.temperature_factor = new_temperature_factor]]

\* PendulumSystem.update_temperature_factor: the simulators after the call.
update_temperature_all(dps, moon, t) ==
    [i \in 1..Len(dps) |->
        LET new_temperature_factor == calculate_temperature_factor(moon, t)
            old == dps[i].temperature_factor
        IN  [dps[i] EXCEPT
                !.pendulums = [j \in 1..2 |->
                    [@[j] EXCEPT !.angular_velocity =
                        Clamp(Div(@ * new_temperature_factor, old))]],
                !.temperature_factor = new_temperature_factor]]

\* PendulumSystem.update_temperature_factor: the ensemble's shared temperature
\* after the call (the method does not assign self.temperature).
temperature_after_update(temp, t) == temp

(***************************************************************************)
(* Visualizer.py                                                           *)
(***************************************************************************)
sidebar_width == 25000
\* size[0] + sidebar_width, with the default size (800, 800)
width == 80000 + sidebar_width
\* self.origin[0]
origin_x == (width + sidebar_width) \div 2
\* self.scale, the constructor's default
scale == 150
node_threshold == 500

\* _convert_to_screen_coords: the x coordinates of the two bodies.
convert_to_screen_coords(dp) ==
    LET x1 == origin_x
              + Div(dp.pendulums[1].length * scale * Sin(dp.pendulums[1].angle), 100)
        x2 == x1 + Div(dp.pendulums[2].length * scale * Sin(dp.pendulums[2].angle), 100)
    IN  <<x1, x2>>

\* update_node with the re-arm test made before the crossing test.
update_node_rearm_first(node, x) ==
    IF node.last_x # None
    THEN LET crossing == (node.last_x < origin_x) # (x < origin_x)
             rearmed == IF Abs(x - origin_x) > node_threshold * 2 THEN FALSE
                        ELSE node.triggered
         IN  [active |-> IF crossing THEN (IF ~rearmed THEN TRUE ELSE node.active)
                         ELSE FALSE,
              triggered |-> rearmed \/ crossing,
              last_x |-> x]
    ELSE [node EXCEPT !.last_x = x]

\* update_node re-arming at node_threshold instead of twice node_threshold.
update_node_single_threshold(node, x) ==
    IF node.last_x # None
    THEN LET crossing == (node.last_x < origin_x) # (x < origin_x)
             fire == crossing /\ ~node.triggered
         IN  [active |-> IF crossing THEN (IF fire THEN TRUE ELSE node.active) ELSE FALSE,
              triggered |-> IF Abs(x - origin_x) > node_threshold THEN FALSE
                            ELSE (fire \/ node.triggered),
              last_x |-> x]
    ELSE [node EXCEPT !.last_x = x]

\* update_node recording last_x only while the node is unseeded.
update_node_seed_only(node, x) ==
    IF node.last_x # None
    THEN LET crossing == (node.last_x < origin_x) # (x < origin_x)
             fire == crossing /\ ~node.triggered
         IN  [active |-> IF crossing THEN (IF fire THEN TRUE ELSE node.active) ELSE FALSE,
              triggered |-> IF Abs(x - origin_x) > node_threshold * 2 THEN FALSE
                            ELSE (fire \/ node.triggered),
              last_x |-> node.last_x]
    ELSE [node EXCEPT !.last_x = x]

\* The loop body of _update_node_states for one node observed at x.
update_node(node, x) ==
    IF node.last_x # None
    THEN LET previous_side == node.last_x < origin_x
             current_side == x < origin_x
             fire == previous_side # current_side /\ ~node.triggered
             active == IF previous_side # current_side
                       THEN (IF ~node.triggered THEN TRUE ELSE node.active)
                       ELSE FALSE
             triggered == IF fire THEN TRUE ELSE node.triggered
         IN  [active |-> active,
              triggered |-> IF Abs(x - origin_x) > node_threshold * 2 THEN FALSE
                            ELSE triggered,
              last_x |-> x]
    ELSE [node EXCEPT !.last_x = x]

\* _update_node_states(double_pendulum), the projection having returned xs.
update_node_states(dp, xs) ==
    [dp EXCEPT !.pendulums = [j \in 1..2 |->
        [@[j] EXCEPT !.node = update_node(@, xs[j])]]]

\* The call executes lines 194-195 for this node: it fires.
Fires(node, x) ==
    /\ node.last_x # None
    /\ (node.last_x < origin_x) # (x < origin_x)
    /\ ~node.triggered

Far(x) == Abs(x - origin_x) > node_threshold * 2

\* History of one node: whether a position farther than 2 * node_threshold has
\* been observed at or after the node's last firing call.
SinceFireAfter(s, node, x) ==
    IF Fires(node, x) THEN (IF Far(x) THEN "far" ELSE "near")
    ELSE IF s = "near" /\ Far(x) THEN "far"
    ELSE s

Snapshot ==
    [double_pendulums |-> double_pendulums, g |-> g, temperature |-> temperature,
     mass_range |-> mass_range, length_range |-> length_range]

NoOp == [name |-> "init", arg |-> 0]

Record(name, arg) ==
    /\ lastOp' = [name |-> name, arg |-> arg]
    /\ pre' = Snapshot

\* An operation on the ensemble that leaves the number of simulators alone.
EnsembleOp(name, arg) ==
    /\ nops < MaxOps
    /\ nops' = nops + 1
    /\ Record(name, arg)
    /\ UNCHANGED <<moon_mode, sinceFire>>
    /\ UNCHANGED busVars
    /\ UNCHANGED envVars

\* PendulumSystem.step(dt)
Step(dt) ==
    /\ \A i \in 1..Len(double_pendulums) : ~Singular(double_pendulums[i])
    /\ EnsembleOp("step", dt)
    /\ double_pendulums' = step_all(double_pendulums, dt)
    /\ UNCHANGED <<g, temperature, mass_range, length_range>>

\* PendulumSystem.step(dt) leaving through a ZeroDivisionError
StepRaises(dt) ==
    /\ \E i \in 1..Len(double_pendulums) : Singular(double_pendulums[i])
    /\ EnsembleOp("step_raised", dt)
    /\ double_pendulums' = step_until_raise(double_pendulums, dt)
    /\ UNCHANGED <<g, temperature, mass_range, length_range>>

\* PendulumSystem.update_gravity(g_new)
UpdateGravity(g_new) ==
    /\ EnsembleOp("update_gravity", g_new)
    /\ double_pendulums' = update_gravity_all(double_pendulums, g, g_new)
    /\ g' = g_new
    /\ UNCHANGED <<temperature, mass_range, length_range>>

\* PendulumSystem.update_number_of_pendulums(n)
UpdateNumberOfPendulums(n, r) ==
    /\ nops < MaxOps
    /\ nops' = nops + 1
    /\ double_pendulums' = resize(double_pendulums, n, g, temperature, moon_mode,
                                  mass_range, length_range, angle_range, r)
    /\ sinceFire' = [i \in 1..Len(double_pendulums') |->
                        IF i <= Len(sinceFire) THEN sinceFire[i] ELSE <<"none", "none">>]
    /\ Record("update_number_of_pendulums", n)
    /\ UNCHANGED <<g, temperature, mass_range, length_range, moon_mode>>
    /\ UNCHANGED busVars
    /\ UNCHANGED envVars

\* PendulumSystem.update_mass_range(mr)
UpdateMassRange(mr, r) ==
    /\ EnsembleOp("update_mass_range", mr)
    /\ double_pendulums' = update_mass_all(double_pendulums, mr, r)
    /\ mass_range' = mr
    /\ UNCHANGED <<g, temperature, length_range>>

\* PendulumSystem.update_length_range(lr)
UpdateLengthRange(lr, r) ==
    /\ EnsembleOp("update_length_range", lr)
    /\ double_pendulums' = update_length_all(double_pendulums, lr, r)
    /\ length_range' = lr
    /\ UNCHANGED <<g, temperature, mass_range>>

\* PendulumSystem.update_temperature_factor(t)
UpdateTemperatureFactor(t) ==
    /\ EnsembleOp("update_temperature_factor", t)
    /\ double_pendulums' = update_temperature_all(double_pendulums, moon_mode, t)
    /\ temperature' = temperature_after_update(temperature, t)
    /\ UNCHANGED <<g, mass_range, length_range>>

\* The node-state loop of PendulumSystemVisualizer.update, the projection of
\* simulator i having returned coords[i].
UpdateNodes(coords) ==
    /\ double_pendulums' = [i \in 1..Len(double_pendulums) |->
            update_node_states(double_pendulums[i], coords[i])]
    /\ sinceFire' = [i \in 1..Len(double_pendulums) |-> [j \in 1..2 |->
            SinceFireAfter(sinceFire[i][j], double_pendulums[i].pendulums[j].node,
                           coords[i][j])]]
    /\ Record("update", coords)
    /\ UNCHANGED <<g, temperature, mass_range, length_range, moon_mode>>
    /\ UNCHANGED busVars
    /\ UNCHANGED envVars

\* PendulumSystemVisualizer.update(pendulum_system, time_delta)
VisualizerUpdate ==
    /\ nops < MaxOps
    /\ nops' = nops + 1
    /\ UpdateNodes([i \in 1..Len(double_pendulums) |->
                        convert_to_screen_coords(double_pendulums[i])])

\* _update_node_states(double_pendulum) with _convert_to_screen_coords patched
\* to return the positions xs, as in tests/test_Visualizer.py.
UpdateNodeStatesAt(xs) ==
    /\ UNCHANGED nops
    /\ UpdateNodes([i \in 1..Len(double_pendulums) |-> xs])

(***************************************************************************)
(* Config.py, Sidebar.py, WeatherAPI.py and the handlers the components    *)
(* register with the bus                                                   *)
(***************************************************************************)
\* Python's None where the model holds text.
NoneText == "None"
\* Locations typed into the sidebar, and the location WeatherAPI is built with.
Locations == {"Barcelona", "Helsinki"}
\* What requests.get brings back: a complete report, or a failure (a request
\* error, or a payload without temp_c or condition text).
Responses ==
    {[status |-> "ok", temp_c |-> 0, text |-> "Rain"],
     [status |-> "ok", temp_c |-> 350, text |-> "Clear"],
     [status |-> "error", temp_c |-> 0, text |-> NoneText]}

\* Config, as its class body leaves it, for an ensemble of n simulators
\* (key_scale_mode: the attributes key, scale and mode).
NewConfig(n) ==
    [num_double_pendulums |-> n, mass_range |-> 0, length_range |-> 0,
     location |-> "Barcelona", temperature |-> 150, weather_condition |-> "Clear",
     key_scale_mode |-> [key |-> "C", scale |-> "MAJOR", mode |-> "IONIAN"]]

\* WeatherAPI.__init__
NewWeatherAPI(location) ==
    [location |-> location, temperature |-> None, weather_condition |-> NoneText]

\* weather_music_mapping.json: for a weather condition, the key, scale and mode
\* of MIDISonifier and the weights of RAVESonifier.
weather_music_mapping(weather_condition) ==
    CASE weather_condition = "Clear" ->
            [key |-> "G", scale |-> "MAJOR", mode |-> "LYDIAN",
             weights |-> "rave_model_weights/clear.ts"]
      [] weather_condition = "Rain" ->
            [key |-> "E_FLAT", scale |-> "MINOR", mode |-> "AEOLIAN",
             weights |-> "rave_model_weights/rain.ts"]

\* MIDISonifier.INTERVALS
INTERVALS(musical_scale, mode) ==
    CASE musical_scale = "MAJOR" /\ mode = "IONIAN" -> <<0, 2, 4, 5, 7, 9, 11, 12>>
      [] musical_scale = "MAJOR" /\ mode = "DORIAN" -> <<0, 2, 3, 5, 7, 9, 10, 12>>
      [] musical_scale = "MAJOR" /\ mode = "PHRYGIAN" -> <<0, 1, 3, 5, 7, 8, 10, 12>>
      [] musical_scale = "MAJOR" /\ mode = "LYDIAN" -> <<0, 2, 4, 6, 7, 9, 11, 12>>
      [] musical_scale = "MAJOR" /\ mode = "MIXOLYDIAN" -> <<0, 2, 4, 5, 7, 9, 10, 12>>
      [] musical_scale = "MAJOR" /\ mode = "AEOLIAN" -> <<0, 2, 3, 5, 7, 8, 10, 12>>
      [] musical_scale = "MAJOR" /\ mode = "LOCRIAN" -> <<0, 1, 3, 5, 6, 8, 10, 12>>
      [] musical_scale = "MINOR" /\ mode = "IONIAN" -> <<0, 2, 3, 5, 7, 8, 10, 12>>
      [] musical_scale = "MINOR" /\ mode = "DORIAN" -> <<0, 2, 3, 5, 7, 9, 10, 12>>
      [] musical_scale = "MINOR" /\ mode = "PHRYGIAN" -> <<0, 1, 3, 5, 7, 8, 10, 12>>
      [] musical_scale = "MINOR" /\ mode = "LYDIAN" -> <<0, 2, 4, 6, 7, 9, 11, 12>>
      [] musical_scale = "MINOR" /\ mode = "MIXOLYDIAN" -> <<0, 2, 4, 5, 7, 9, 10, 12>>
      [] musical_scale = "MINOR" /\ mode = "AEOLIAN" -> <<0, 2, 3, 5, 7, 8, 10, 12>>
      [] musical_scale = "MINOR" /\ mode = "LOCRIAN" -> <<0, 1, 3, 5, 6, 8, 10, 12>>

\* MIDISonifier.KEYS
KEYS(key) ==
    CASE key = "C" -> 60
      [] key = "C_SHARP" -> 61
      [] key = "D_FLAT" -> 61
      [] key = "D" -> 62
      [] key = "E_FLAT" -> 63
      [] key = "E" -> 64
      [] key = "F" -> 65
      [] key = "F_SHARP" -> 66
      [] key = "G_FLAT" -> 66
      [] key = "G" -> 67
      [] key = "A_FLAT" -> 68
      [] key = "A" -> 69
      [] key = "B_FLAT" -> 70
      [] key = "B" -> 71

\* The pitch classes of a key, scale and mode: the base note plus each interval,
\* modulo 12.
allowed_classes(key, musical_scale, mode) ==
    LET selected_intervals == INTERVALS(musical_scale, mode)
    IN  {(KEYS(key) + selected_intervals[k]) % 12 : k \in 1..Len(selected_intervals)}

\* [note for note in range(lo, hi) if note % 12 in classes]
allowed_notes(lo, hi, classes) ==
    LET notes == {note \in lo..(hi - 1) : note % 12 \in classes}
    IN  [k \in 1..Cardinality(notes) |->
            CHOOSE note \in notes : Cardinality({n \in notes : n < note}) = k - 1]

\* list(reversed(notes))
reversed(notes) == [k \in 1..Len(notes) |-> notes[Len(notes) + 1 - k]]

\* MIDISonifier.__init__: the allowed notes of both halves are computed here.
\* `sent' and `sent_in' are history: the messages of the last call of update
\* and the key, scale and mode the sonifier had during it.
NewMIDISonifier(key, musical_scale, mode) ==
    [key |-> key, scale |-> musical_scale, mode |-> mode,
     upper_notes |-> allowed_notes(64, 128, allowed_classes(key, musical_scale, mode)),
     lower_notes_reversed |->
        reversed(allowed_notes(0, 64, allowed_classes(key, musical_scale, mode))),
     sent |-> <<>>,
     sent_in |-> [key |-> key, scale |-> musical_scale, mode |-> mode]]

\* A handler that also rebuilds the allowed notes for the new key, scale and
\* mode.
set_key_scale_mode_rebuilding(sonifier, weather_condition) ==
    [NewMIDISonifier(weather_music_mapping(weather_condition).key,
                     weather_music_mapping(weather_condition).scale,
                     weather_music_mapping(weather_condition).mode)
        EXCEPT !.sent = sonifier.sent, !.sent_in = sonifier.sent_in]

\* MIDISonifier.set_key_scale_mode_from_weather: the three attributes it reads
\* from the table.
set_key_scale_mode_from_weather(weather_condition) ==
    [key |-> weather_music_mapping(weather_condition).key,
     scale |-> weather_music_mapping(weather_condition).scale,
     mode |-> weather_music_mapping(weather_condition).mode]

\* MIDISonifier._on_weather_changed: the sonifier after the handler.
on_weather_changed(sonifier, weather_condition) ==
    [sonifier EXCEPT
        !.key = set_key_scale_mode_from_weather(weather_condition).key,
        !.scale = set_key_scale_mode_from_weather(weather_condition).scale,
        !.mode = set_key_scale_mode_from_weather(weather_condition).mode]

\* min(127, max(30, int(scaled_ang_vel * 20)))
midi_velocity(angular_velocity, gv) ==
    LET raw == (Abs(angular_velocity) * 981 * 20) \div (gv * 1000)
    IN  IF raw > 127 THEN 127 ELSE IF raw < 30 THEN 30 ELSE raw

\* MIDISonifier.update: the note_on message for body j of simulator i.
note_on(sonifier, dps, i, j) ==
    LET allowed == IF (j - 1) % 2 = 0 THEN sonifier.lower_notes_reversed
                   ELSE sonifier.upper_notes
    IN  [channel |-> j - 1,
         note |-> allowed[((i - 1) % Len(allowed)) + 1],
         velocity |-> midi_velocity(dps[i].pendulums[j].angular_velocity, dps[i].g)]

\* MIDISonifier.update: the messages sent, in the order of its loops.  No
\* note_off is sent: prev_state is never written.
notes_sent(sonifier, dps) ==
    LET bodies == [k \in 1..(2 * Len(dps)) |-> <<(k + 1) \div 2, ((k - 1) % 2) + 1>>]
        active == SelectSeq(bodies,
                            LAMBDA b : dps[b[1]].pendulums[b[2]].node.active)
    IN  [k \in 1..Len(active) |-> note_on(sonifier, dps, active[k][1], active[k][2])]

\* RAVESonifier.update_settings: the weights it selects.
update_settings(cfg, moon) ==
    IF moon THEN "rave_model_weights/moon.ts"
    ELSE weather_music_mapping(cfg.weather_condition).weights

\* RAVESonifier.__init__ without weights_path
NewRAVESonifier(cfg, moon) == [weights_path |-> update_settings(cfg, moon)]

\* PendulumSystemVisualizer.get_background_color
get_background_color(cfg, moon) ==
    LET t == cfg.temperature
    IN  IF moon THEN <<0, 0, 0>>
        ELSE IF t <= 0 THEN <<0, 0, 180>>
        ELSE IF t <= 100 THEN <<0, 0, 255 - Div(t * 5, 10)>>
        ELSE IF t <= 200
             THEN <<0, Div((t - 100) * 20, 10), 200 - Div((t - 100) * 20, 10)>>
        ELSE IF t <= 300
             THEN <<Div((t - 200) * 20, 10), 200 - Div((t - 200) * 10, 10), 0>>
        ELSE <<200 + (IF Div((t - 300) * 5, 10) > 55 THEN 55
                      ELSE Div((t - 300) * 5, 10)), 50, 0>>

\* A text of the visualizer, by the values it shows; EmptyText is "".
EmptyText ==
    [shows |-> "", location |-> NoneText, weather_condition |-> NoneText,
     temperature |-> None, gravity |-> None, key |-> NoneText, scale |-> NoneText,
     mode |-> NoneText]

\* PendulumSystemVisualizer.update_location_weather_text
update_location_weather_text(cfg, moon) ==
    IF moon THEN [EmptyText EXCEPT !.shows = "Moon"]
    ELSE [EmptyText EXCEPT !.shows = "location: weather_condition, temperature",
                           !.location = cfg.location,
                           !.weather_condition = cfg.weather_condition,
                           !.temperature = cfg.temperature]

\* PendulumSystemVisualizer.update_gravity_text
update_gravity_text(moon) ==
    [EmptyText EXCEPT !.shows = "Gravity", !.gravity = IF moon THEN 162 ELSE 981]

\* PendulumSystemVisualizer.update_music_text
update_music_text(cfg) ==
    [EmptyText EXCEPT !.shows = "Playing", !.key = cfg.key_scale_mode.key,
                      !.scale = cfg.key_scale_mode.scale,
                      !.mode = cfg.key_scale_mode.mode]

\* PendulumSystemVisualizer.__init__: the colour and the empty texts.
NewVisualizerTexts(cfg, moon) ==
    [background_color |-> get_background_color(cfg, moon),
     location_weather_text |-> EmptyText,
     gravity_text |-> EmptyText,
     music_text |-> EmptyText]

\* The handlers each component registers in _register_event_handlers.
AppSubscribers(type) ==
    CASE type = "LOCATION_CHANGED" -> {"WeatherAPI"}
      [] type = "WEATHER_UPDATED" -> {"Visualizer", "MIDISonifier", "RAVESonifier"}
      [] type = "MOON_MODE_CHANGED" -> {"Visualizer", "RAVESonifier"}
      [] type = "PENDULUM_COUNT_CHANGED" -> {"Visualizer"}
      [] type = "MASS_RANGE_CHANGED" -> {"Visualizer"}
      [] type = "LENGTH_RANGE_CHANGED" -> {"Visualizer"}
      [] type = "MUSIC_SETTINGS_CHANGED" -> {"Visualizer"}
      [] OTHER -> {}

Sidebar == <<"Sidebar", "process_event">>

\* One publish() call in progress: the handlers still to call, the caller to
\* resume, and what the caller does when publish returns.
AppFrame(type, data, publisher, after, old_location) ==
    [type |-> type, data |-> data, pending |-> AppSubscribers(type),
     publisher |-> publisher, after |-> after, old_location |-> old_location]

AppTop == appStack[Len(appStack)]

\* The Config fields an event announces hold the announced value.
ConfigHolds(type, data, cfg, moon) ==
    CASE type = "LOCATION_CHANGED" -> cfg.location = data
      [] type = "WEATHER_UPDATED" ->
            /\ cfg.temperature = data.temperature
            /\ cfg.weather_condition = data.condition
      [] type = "MOON_MODE_CHANGED" -> moon = data
      [] type = "PENDULUM_COUNT_CHANGED" -> cfg.num_double_pendulums = data
      [] type = "MASS_RANGE_CHANGED" -> cfg.mass_range = data
      [] type = "LENGTH_RANGE_CHANGED" -> cfg.length_range = data
      [] type = "MUSIC_SETTINGS_CHANGED" ->
            cfg.key_scale_mode = set_key_scale_mode_from_weather(cfg.weather_condition)
      [] OTHER -> TRUE

\* History of one user edit: Config and WeatherAPI as they were before it, the
\* events published since, the handlers begun and completed, whether a handler
\* began while Config did not hold the announced value, and how the fetch ended.
\* `before' of an edit not made yet.
NoBefore ==
    [ensemble |-> [double_pendulums |-> <<>>, g |-> 981, temperature |-> None,
                   mass_range |-> 0, length_range |-> 0],
     midi |-> NewMIDISonifier("C", "MAJOR", "IONIAN"),
     view |-> NewVisualizerTexts(NewConfig(1), FALSE),
     rave |-> NewRAVESonifier(NewConfig(1), FALSE)]

NewEdit(kind, data, cfg, moon, api) ==
    [kind |-> kind, data |-> data, config |-> cfg, moon_mode |-> moon,
     weather_api |-> api, published |-> <<>>, started |-> {}, completed |-> {},
     stale |-> FALSE, fetch |-> "none", before |-> NoBefore]

Event(type, data) == [type |-> type, data |-> data]

\* A variant of the sidebar that publishes before it writes Config.
edited_after_publish(cfg, field, value) == cfg

\* Sidebar.process_event: the Config attribute is assigned before the publish.
edited(cfg, field, value) == [cfg EXCEPT ![field] = value]

\* Sidebar.process_event, from the assignment of Config to the call of publish.
SidebarPublish(type, data) ==
    /\ appStack = <<>>
    /\ nops < MaxOps
    /\ nops' = nops + 1
    /\ appStack' = <<AppFrame(type, data, Sidebar, "none", NoneText)>>
    /\ edit' = [NewEdit(type, data, config, moon_mode, weather_api)
                    EXCEPT !.published = <<Event(type, data)>>,
                           !.before = [ensemble |-> Snapshot, midi |-> midi,
                                       view |-> view, rave |-> rave]]
    /\ UNCHANGED <<weather_api, double_pendulums, g, temperature, mass_range,
                   length_range, lastOp, pre, sinceFire>>
    /\ UNCHANGED busVars
    /\ UNCHANGED audioVars
    /\ UNCHANGED uiVars

\* UI_BUTTON_PRESSED on the moon checkbox
PressMoonCheckbox ==
    /\ moon_mode' = ~moon_mode
    /\ UNCHANGED config
    /\ SidebarPublish("MOON_MODE_CHANGED", ~moon_mode)

\* UI_HORIZONTAL_SLIDER_MOVED on the mass slider
MoveMassSlider(mr) ==
    /\ mr # config.mass_range
    /\ config' = edited(config, "mass_range", mr)
    /\ UNCHANGED moon_mode
    /\ SidebarPublish("MASS_RANGE_CHANGED", mr)

\* UI_HORIZONTAL_SLIDER_MOVED on the length slider
MoveLengthSlider(lr) ==
    /\ lr # config.length_range
    /\ config' = edited(config, "length_range", lr)
    /\ UNCHANGED moon_mode
    /\ SidebarPublish("LENGTH_RANGE_CHANGED", lr)

\* UI_HORIZONTAL_SLIDER_MOVED on the simulator-count slider
MoveCountSlider(n) ==
    /\ n # config.num_double_pendulums
    /\ config' = edited(config, "num_double_pendulums", n)
    /\ UNCHANGED moon_mode
    /\ SidebarPublish("PENDULUM_COUNT_CHANGED", n)

\* UI_TEXT_ENTRY_FINISHED on the location entry
FinishLocationEntry(location) ==
    /\ config' = edited(config, "location", location)
    /\ UNCHANGED moon_mode
    /\ SidebarPublish("LOCATION_CHANGED", location)

\* publish() calls handler h of the event being dispatched.
Calls(type, h) ==
    /\ appStack # <<>>
    /\ AppTop.type = type
    /\ h \in AppTop.pending

Taken(h) == [appStack EXCEPT ![Len(appStack)].pending = @ \ {h}]

\* The history after handler h began; done: it also returned.
Began(h, done) ==
    [edit EXCEPT
        !.started = @ \cup {<<AppTop.type, h>>},
        !.completed = IF done THEN @ \cup {<<AppTop.type, h>>} ELSE @,
        !.stale = @ \/ ~ConfigHolds(AppTop.type, AppTop.data, config, moon_mode)]

\* A handler that calls publish: the new call is dispatched before it resumes.
Nested(h, type, data, after, old_location) ==
    /\ appStack' = Append(Taken(h),
                          AppFrame(type, data, <<AppTop.type, h>>, after, old_location))

\* A handler that touches neither the ensemble nor Config nor MIDISonifier.
InertHandler(type, h) ==
    /\ Calls(type, h)
    /\ appStack' = Taken(h)
    /\ edit' = Began(h, TRUE)
    /\ UNCHANGED <<config, weather_api>>
    /\ UNCHANGED sysVars
    /\ UNCHANGED busVars
    /\ UNCHANGED audioVars
    /\ UNCHANGED <<pump, midi>>

\* A variant of the error event that names the location reverted to.
fetch_error_event_old(new_location, old_location) ==
    Event("WEATHER_FETCH_ERROR",
          [error_message |-> <<"Failed to fetch weather for ", old_location>>,
           location |-> old_location])

\* WeatherAPI._on_location_changed: the event published when the fetch failed.
fetch_error_event(new_location, old_location) ==
    Event("WEATHER_FETCH_ERROR",
          [error_message |-> <<"Failed to fetch weather for ", new_location>>,
           location |-> new_location])

\* WeatherAPI.fetch_current_weather_data: the event published on success.
weather_updated_event(resp) ==
    Event("WEATHER_UPDATED", [condition |-> resp.text, temperature |-> resp.temp_c])

\* WeatherAPI._on_location_changed, up to the publish it makes: of
\* WEATHER_UPDATED inside fetch_current_weather_data, or of WEATHER_FETCH_ERROR.
OnLocationChanged(resp) ==
    /\ Calls("LOCATION_CHANGED", "WeatherAPI")
    /\ LET new_location == AppTop.data
           old_location == weather_api.location
       IN  IF resp.status = "ok"
           THEN /\ weather_api' = [location |-> new_location,
                                   temperature |-> resp.temp_c,
                                   weather_condition |-> resp.text]
                /\ config' = [config EXCEPT !.weather_condition = resp.text,
                                            !.temperature = resp.temp_c]
                /\ Nested("WeatherAPI", "WEATHER_UPDATED",
                          weather_updated_event(resp).data, "none", NoneText)
                /\ edit' = [Began("WeatherAPI", FALSE) EXCEPT
                               !.published = Append(@, weather_updated_event(resp)),
                               !.fetch = "ok"]
           ELSE /\ weather_api' = [location |-> new_location,
                                   temperature |-> config.temperature,
                                   weather_condition |-> config.weather_condition]
                /\ UNCHANGED config
                /\ Nested("WeatherAPI", "WEATHER_FETCH_ERROR",
                          fetch_error_event(new_location, old_location).data,
                          "revert", old_location)
                /\ edit' = [Began("WeatherAPI", FALSE) EXCEPT
                               !.published =
                                   Append(@, fetch_error_event(new_location, old_location)),
                               !.fetch = "failed"]
    /\ UNCHANGED sysVars
    /\ UNCHANGED busVars
    /\ UNCHANGED audioVars
    /\ UNCHANGED uiVars

\* A handler of the visualizer that calls one operation of the ensemble.
VisualizerCalls(type, name, arg) ==
    /\ Calls(type, "Visualizer")
    /\ appStack' = Taken("Visualizer")
    /\ edit' = Began("Visualizer", TRUE)
    /\ Record(name, arg)
    /\ UNCHANGED <<config, weather_api, moon_mode, nops>>
    /\ UNCHANGED busVars
    /\ UNCHANGED audioVars
    /\ UNCHANGED <<pump, midi, rave>>

\* PendulumSystemVisualizer._on_weather_updated
VisualizerOnWeatherUpdated ==
    /\ VisualizerCalls("WEATHER_UPDATED", "update_temperature_factor",
                       AppTop.data.temperature)
    /\ double_pendulums' = update_temperature_all(double_pendulums, moon_mode,
                                                  AppTop.data.temperature)
    /\ temperature' = temperature_after_update(temperature, AppTop.data.temperature)
    /\ view' = [view EXCEPT
                   !.location_weather_text =
                       update_location_weather_text(config, moon_mode),
                   !.background_color = get_background_color(config, moon_mode)]
    /\ UNCHANGED <<g, mass_range, length_range, sinceFire>>

\* PendulumSystemVisualizer._on_moon_mode_changed
VisualizerOnMoonModeChanged ==
    LET new_gravity == IF AppTop.data THEN 162 ELSE 981
    IN  /\ VisualizerCalls("MOON_MODE_CHANGED", "update_gravity", new_gravity)
        /\ double_pendulums' = update_gravity_all(double_pendulums, g, new_gravity)
        /\ g' = new_gravity
        /\ view' = [view EXCEPT
                       !.background_color = get_background_color(config, moon_mode),
                       !.gravity_text = update_gravity_text(moon_mode),
                       !.location_weather_text =
                           update_location_weather_text(config, moon_mode)]
        /\ UNCHANGED <<temperature, mass_range, length_range, sinceFire>>

\* PendulumSystemVisualizer._on_pendulum_count_changed
VisualizerOnPendulumCountChanged(r) ==
    /\ VisualizerCalls("PENDULUM_COUNT_CHANGED", "update_number_of_pendulums",
                       AppTop.data)
    /\ double_pendulums' = resize(double_pendulums, AppTop.data, g, temperature,
                                  moon_mode, mass_range, length_range, angle_range, r)
    /\ sinceFire' = [i \in 1..Len(double_pendulums') |->
                        IF i <= Len(sinceFire) THEN sinceFire[i] ELSE <<"none", "none">>]
    /\ UNCHANGED <<g, temperature, mass_range, length_range, view>>

\* PendulumSystemVisualizer._on_mass_range_changed
VisualizerOnMassRangeChanged(r) ==
    /\ VisualizerCalls("MASS_RANGE_CHANGED", "update_mass_range", AppTop.data)
    /\ double_pendulums' = update_mass_all(double_pendulums, AppTop.data, r)
    /\ mass_range' = AppTop.data
    /\ UNCHANGED <<g, temperature, length_range, sinceFire, view>>

\* PendulumSystemVisualizer._on_length_range_changed
VisualizerOnLengthRangeChanged(r) ==
    /\ VisualizerCalls("LENGTH_RANGE_CHANGED", "update_length_range", AppTop.data)
    /\ double_pendulums' = update_length_all(double_pendulums, AppTop.data, r)
    /\ length_range' = AppTop.data
    /\ UNCHANGED <<g, temperature, mass_range, sinceFire, view>>

\* PendulumSystemVisualizer._on_music_settings_changed
VisualizerOnMusicSettingsChanged ==
    /\ InertHandler("MUSIC_SETTINGS_CHANGED", "Visualizer")
    /\ view' = [view EXCEPT !.music_text = update_music_text(config)]
    /\ UNCHANGED rave

\* MIDISonifier._on_weather_changed, up to its publish of MUSIC_SETTINGS_CHANGED.
MIDIOnWeatherChanged ==
    /\ Calls("WEATHER_UPDATED", "MIDISonifier")
    /\ midi' = on_weather_changed(midi, AppTop.data.condition)
    /\ config' = [config EXCEPT !.key_scale_mode =
                     [key |-> midi'.key, scale |-> midi'.scale, mode |-> midi'.mode]]
    /\ Nested("MIDISonifier", "MUSIC_SETTINGS_CHANGED", NoneText, "none", NoneText)
    /\ edit' = [Began("MIDISonifier", FALSE) EXCEPT
                   !.published = Append(@, Event("MUSIC_SETTINGS_CHANGED", NoneText))]
    /\ UNCHANGED weather_api
    /\ UNCHANGED sysVars
    /\ UNCHANGED busVars
    /\ UNCHANGED audioVars
    /\ UNCHANGED <<pump, view, rave>>

\* RAVESonifier._on_weather_changed: update_settings and load_model.
RAVEOnWeatherChanged ==
    /\ InertHandler("WEATHER_UPDATED", "RAVESonifier")
    /\ rave' = [rave EXCEPT !.weights_path = update_settings(config, moon_mode)]
    /\ UNCHANGED view

\* RAVESonifier._on_moon_mode_changed: update_settings and load_model.
RAVEOnMoonModeChanged ==
    /\ InertHandler("MOON_MODE_CHANGED", "RAVESonifier")
    /\ rave' = [rave EXCEPT !.weights_path = update_settings(config, moon_mode)]
    /\ UNCHANGED view

\* A variant of the return of publish that gives up the handlers not yet called
\* of the event whose handler published.
publish_return_drops(stk) ==
    IF Len(stk) >= 2
    THEN SubSeq(stk, 1, Len(stk) - 2)
    ELSE SubSeq(stk, 1, Len(stk) - 1)

\* EventManager.publish returning: the loop over the callbacks is over.
publish_return(stk) == SubSeq(stk, 1, Len(stk) - 1)

\* publish() returns to its caller: the sidebar, or the handler that published,
\* which completes (_on_location_changed first reverts the location when the
\* publish was of WEATHER_FETCH_ERROR).
PublishReturn ==
    /\ appStack # <<>>
    /\ AppTop.pending = {}
    /\ appStack' = publish_return(appStack)
    /\ edit' = [edit EXCEPT !.completed =
                    IF AppTop.publisher = Sidebar THEN @ ELSE @ \cup {AppTop.publisher}]
    /\ IF AppTop.after = "revert"
       THEN /\ weather_api' = [weather_api EXCEPT !.location = AppTop.old_location]
            /\ config' = [config EXCEPT !.location = AppTop.old_location]
       ELSE UNCHANGED <<config, weather_api>>
    /\ UNCHANGED sysVars
    /\ UNCHANGED busVars
    /\ UNCHANGED audioVars
    /\ UNCHANGED uiVars

\* The main loop calls MIDISonifier.update(pendulum_system.double_pendulums)
\* between two dispatches.
MIDIUpdate ==
    /\ appStack = <<>>
    /\ nops < MaxOps
    /\ nops' = nops + 1
    /\ midi' = [midi EXCEPT
                   !.sent = notes_sent(midi, double_pendulums),
                   !.sent_in = [key |-> midi.key, scale |-> midi.scale,
                                mode |-> midi.mode]]
    /\ UNCHANGED <<double_pendulums, g, temperature, mass_range, length_range,
                   moon_mode, lastOp, pre, sinceFire>>
    /\ UNCHANGED <<pump, view, rave>>
    /\ UNCHANGED <<appVars, audioVars, busVars>>

(***************************************************************************)
(* PendulumSystemVisualizer.process_pygame_events                          *)
(***************************************************************************)
\* The longest list of events one call is given.
MaxEvents == 4
\* event.type of the events pygame.event.get() returns.
PygameEventTypes == {"MOUSEMOTION", "KEYDOWN", "QUIT"}

RECURSIVE process_pygame_events_past_quit(_, _, _)
\* A loop that skips a QUIT event and goes on with the events after it.
process_pygame_events_past_quit(events, i, published) ==
    IF i > Len(events) THEN [result |-> TRUE, published |-> published]
    ELSE IF events[i] = "QUIT"
         THEN process_pygame_events_past_quit(events, i + 1, published)
    ELSE process_pygame_events_past_quit(
             events, i + 1, Append(published, Event("PYGAME_EVENT", events[i])))

RECURSIVE process_pygame_events(_, _, _)
\* process_pygame_events from the i-th event on, `published' being the events
\* handed to event_manager.publish so far: what it returns and has published.
\* No component subscribes to PYGAME_EVENT, so publish calls no handler.
process_pygame_events(events, i, published) ==
    IF i > Len(events) THEN [result |-> TRUE, published |-> published]
    ELSE IF events[i] = "QUIT" THEN [result |-> FALSE, published |-> published]
    ELSE process_pygame_events(
             events, i + 1, Append(published, Event("PYGAME_EVENT", events[i])))

\* The main loop calls process_pygame_events(events).
ProcessPygameEvents(events) ==
    /\ appStack = <<>>
    /\ pump' = [called |-> TRUE, events |-> events,
                published |-> process_pygame_events(events, 1, <<>>).published,
                result |-> process_pygame_events(events, 1, <<>>).result]
    /\ UNCHANGED <<midi, view, rave>>
    /\ UNCHANGED <<appVars, audioVars, sysVars, busVars>>

(***************************************************************************)
(* The main loop's frame and the audio callback of RAVESonifier, which     *)
(* sounddevice runs on its own thread                                      *)
(***************************************************************************)
\* The time step of a frame, in milliseconds.
FrameTime == 10

\* The main loop between frames, no frame completed yet; `done' is history:
\* the ensemble as each completed frame left it.
NewFrameState == [phase |-> "idle", i |-> 0, done |-> <<>>]

\* No audio callback running.
NewAudio == [pc |-> "idle", i |-> 0, j |-> 0, reads |-> <<>>]

\* What generate_latents reads of one body.
Kinematics(dp, j) ==
    [last_x |-> dp.pendulums[j].node.last_x,
     angular_velocity |-> dp.pendulums[j].angular_velocity,
     g |-> dp.g]

\* The main loop starts a frame: PendulumSystem.step is entered.
FrameBegin ==
    /\ frame.phase = "idle"
    /\ Len(frame.done) < MaxFrames
    /\ double_pendulums # <<>>
    /\ frame' = [frame EXCEPT !.phase = "step", !.i = 1]
    /\ UNCHANGED <<audio, appVars, uiVars, sysVars, busVars>>

\* PendulumSystem.step: one iteration of its loop.
FrameStepOne ==
    /\ frame.phase = "step"
    /\ double_pendulums' = [double_pendulums EXCEPT
            ![frame.i] = DoublePendulumStep(@, FrameTime)]
    /\ frame' = IF frame.i < Len(double_pendulums)
                THEN [frame EXCEPT !.i = @ + 1]
                ELSE [frame EXCEPT !.phase = "nodes", !.i = 1]
    /\ UNCHANGED <<g, temperature, mass_range, length_range, moon_mode, nops,
                   lastOp, pre, sinceFire>>
    /\ UNCHANGED <<audio, appVars, uiVars, busVars>>

\* PendulumSystemVisualizer.update: one iteration of its loop; the frame is
\* complete after the last one.
FrameUpdateNodesOne ==
    /\ frame.phase = "nodes"
    /\ LET i == frame.i
           xs == convert_to_screen_coords(double_pendulums[i])
       IN  /\ double_pendulums' = [double_pendulums EXCEPT
                   ![i] = update_node_states(@, xs)]
           /\ sinceFire' = [sinceFire EXCEPT ![i] = [j \in 1..2 |->
                   SinceFireAfter(@[j], double_pendulums[i].pendulums[j].node, xs[j])]]
           /\ frame' = IF i < Len(double_pendulums)
                       THEN [frame EXCEPT !.i = @ + 1]
                       ELSE [frame EXCEPT !.phase = "idle", !.i = 0,
                                          !.done = Append(@, double_pendulums')]
    /\ UNCHANGED <<g, temperature, mass_range, length_range, moon_mode, nops,
                   lastOp, pre>>
    /\ UNCHANGED <<audio, appVars, uiVars, busVars>>

\* sounddevice calls the stream's callback: generate_latents starts its loops.
AudioCallback ==
    /\ audio.pc \in {"idle", "done"}
    /\ double_pendulums # <<>>
    /\ audio' = [pc |-> "reading", i |-> 1, j |-> 1, reads |-> <<>>]
    /\ UNCHANGED <<frame, appVars, uiVars, sysVars, busVars>>

\* generate_latents: one iteration of the inner loop reads last_x,
\* angular_velocity and g of one body.
AudioRead ==
    /\ audio.pc = "reading"
    /\ audio' = [pc |-> IF audio.i = Len(double_pendulums) /\ audio.j = 2
                        THEN "done" ELSE "reading",
                 i |-> IF audio.j = 2 THEN audio.i + 1 ELSE audio.i,
                 j |-> IF audio.j = 2 THEN 1 ELSE 2,
                 reads |-> Append(audio.reads,
                                  Kinematics(double_pendulums[audio.i], audio.j))]
    /\ double_pendulums[audio.i].pendulums[audio.j].node.last_x # None
    /\ UNCHANGED <<frame, appVars, uiVars, sysVars, busVars>>

\* generate_latents on a body no frame has projected yet: None - float raises
\* TypeError in the callback.
AudioReadRaises ==
    /\ audio.pc = "reading"
    /\ double_pendulums[audio.i].pendulums[audio.j].node.last_x = None
    /\ audio' = [audio EXCEPT !.pc = "raised"]
    /\ UNCHANGED <<frame, appVars, uiVars, sysVars, busVars>>

(***************************************************************************)
(* Specifications                                                          *)
(***************************************************************************)
BusIdle ==
    /\ subscribers = NewSubscribers
    /\ stack = <<>>
    /\ invoked = [c \in Callbacks |-> 0]
    /\ raised = FALSE
    /\ reentered = FALSE
    /\ busPc = "idle"
    /\ lastEvent = "none"
    /\ subCount = [k \in EventType |-> [c \in Callbacks |-> 0]]

\* PendulumSystem(n, temperature=temp) with the other arguments defaulted.
SysBuilt(n, temp, r) ==
    /\ double_pendulums = NewPendulums(n, 981, temp, FALSE, 0, 0, angle_range, r)
    /\ g = 981
    /\ temperature = temp
    /\ mass_range = 0
    /\ length_range = 0
    /\ moon_mode = FALSE
    /\ nops = 0
    /\ lastOp = NoOp
    /\ pre = Snapshot
    /\ sinceFire = [i \in 1..n |-> <<"none", "none">>]

\* No user edit is being dispatched; WeatherAPI was built for `location'.
AppIdle(n, location) ==
    /\ config = NewConfig(n)
    /\ weather_api = NewWeatherAPI(location)
    /\ appStack = <<>>
    /\ edit = NewEdit("none", NoneText, NewConfig(n), FALSE, NewWeatherAPI(location))

\* The main loop is between frames and no audio callback is running.
AudioIdle ==
    /\ frame = NewFrameState
    /\ audio = NewAudio

\* process_pygame_events has not been called.
NewPump == [called |-> FALSE, events |-> <<>>, published |-> <<>>, result |-> TRUE]

\* The sonifiers and the visualizer as their constructors leave them, built
\* after Config.
UiIdle ==
    /\ pump = NewPump
    /\ midi = NewMIDISonifier(config.key_scale_mode.key, config.key_scale_mode.scale,
                              config.key_scale_mode.mode)
    /\ view = NewVisualizerTexts(config, moon_mode)
    /\ rave = NewRAVESonifier(config, moon_mode)

\* The bus driven from the main loop only: no handler calls the bus.
InitBus ==
    /\ BusIdle
    /\ SysBuilt(1, None, 0)
    /\ AppIdle(1, "Barcelona")
    /\ AudioIdle
    /\ UiIdle

NextBus ==
    \/ \E k \in BusKinds, c \in Callbacks : Subscribe(k, c)
    \/ \E k \in BusKinds, c \in Callbacks : Unsubscribe(k, c)
    \/ \E k \in BusKinds : Publish(k)
    \/ \E c \in Callbacks : DispatchInert(c)
    \/ DispatchReturn

SpecBus == InitBus /\ [][NextBus]_vars

\* The bus with re-entrant handlers: a handler may subscribe, unsubscribe or
\* publish while a publish is dispatching.
NextReentrant ==
    \/ \E k \in BusKinds, c \in Callbacks : Subscribe(k, c)
    \/ \E k \in BusKinds, c \in Callbacks : Unsubscribe(k, c)
    \/ \E k \in BusKinds : Publish(k)
    \/ \E c \in Callbacks : DispatchInert(c)
    \/ \E c \in Callbacks, k2 \in BusKinds, c2 \in Callbacks : DispatchSubscribe(c, k2, c2)
    \/ \E c \in Callbacks, k2 \in BusKinds, c2 \in Callbacks : DispatchUnsubscribe(c, k2, c2)
    \/ \E c \in Callbacks, k2 \in BusKinds : DispatchPublish(c, k2)
    \/ DispatchReturn
    \/ DispatchRaise

SpecReentrant == InitBus /\ [][NextReentrant]_vars

\* The ensemble alone: every operation of PendulumSystem, in any order.
InitSys ==
    /\ BusIdle
    /\ \E n \in 1..MaxN, temp \in InitTemperatures, r \in RandomStreams :
          SysBuilt(n, temp, r) /\ AppIdle(n, "Barcelona")
    /\ AudioIdle
    /\ UiIdle

NextSys ==
    \/ \E dt \in TimeSteps : Step(dt)
    \/ \E g_new \in Gravities : UpdateGravity(g_new)
    \/ \E n \in 1..MaxN, r \in RandomStreams : UpdateNumberOfPendulums(n, r)
    \/ \E mr \in Ranges, r \in RandomStreams : UpdateMassRange(mr, r)
    \/ \E lr \in Ranges, r \in RandomStreams : UpdateLengthRange(lr, r)
    \/ \E t \in Temperatures : UpdateTemperatureFactor(t)
    \/ VisualizerUpdate

SpecSys == InitSys /\ [][NextSys]_vars

\* The ensemble called with any simulator count, the counts below one included
\* (update_number_of_pendulums takes an int and does not look at its sign).
InvalidCounts == {-1, 0}

NextSysAnyCount ==
    \/ NextSys
    \/ \E n \in InvalidCounts, r \in RandomStreams : UpdateNumberOfPendulums(n, r)

SpecSysAnyCount == InitSys /\ [][NextSysAnyCount]_vars

\* The ensemble one step of a second after its construction, then every
\* operation of PendulumSystem, in any order.
InitSysStepped ==
    /\ BusIdle
    /\ \E n \in 1..MaxN, temp \in InitTemperatures, r \in RandomStreams :
          LET built == NewPendulums(n, 981, temp, FALSE, 0, 0, angle_range, r)
          IN  /\ double_pendulums = step_all(built, 1000)
              /\ g = 981
              /\ temperature = temp
              /\ mass_range = 0
              /\ length_range = 0
              /\ moon_mode = FALSE
              /\ nops = 0
              /\ lastOp = [name |-> "step", arg |-> 1000]
              /\ pre = [double_pendulums |-> built, g |-> 981, temperature |-> temp,
                        mass_range |-> 0, length_range |-> 0]
              /\ sinceFire = [i \in 1..n |-> <<"none", "none">>]
              /\ AppIdle(n, "Barcelona")
    /\ AudioIdle
    /\ UiIdle

SpecSysStepped == InitSysStepped /\ [][NextSys]_vars

\* The ensemble called with any length range the interface takes
\* (update_length_range takes a float and does not look at its size): with a
\* range of 1.0 random.uniform(0.0, 2.0) draws from the closed interval.
WideRanges == {10}

NextSysAnyRange ==
    \/ NextSys
    \/ \E lr \in WideRanges, r \in RandomStreams : UpdateLengthRange(lr, r)
    \/ \E dt \in TimeSteps : StepRaises(dt)

SpecSysAnyRange == InitSys /\ [][NextSysAnyRange]_vars

\* The application between frames: the user's edits in the sidebar and the
\* handlers the bus calls for them, in any order the subscriber sets allow.
InitApp ==
    /\ BusIdle
    /\ AudioIdle
    /\ \E n \in 1..MaxN, temp \in InitTemperatures, location \in Locations :
          SysBuilt(n, temp, 0) /\ AppIdle(n, location)
    /\ UiIdle

NextApp ==
    \/ PressMoonCheckbox
    \/ \E mr \in Ranges : MoveMassSlider(mr)
    \/ \E lr \in Ranges : MoveLengthSlider(lr)
    \/ \E n \in 1..MaxN : MoveCountSlider(n)
    \/ \E location \in Locations : FinishLocationEntry(location)
    \/ \E resp \in Responses : OnLocationChanged(resp)
    \/ VisualizerOnWeatherUpdated
    \/ VisualizerOnMoonModeChanged
    \/ \E r \in RandomStreams : VisualizerOnPendulumCountChanged(r)
    \/ \E r \in RandomStreams : VisualizerOnMassRangeChanged(r)
    \/ \E r \in RandomStreams : VisualizerOnLengthRangeChanged(r)
    \/ VisualizerOnMusicSettingsChanged
    \/ MIDIOnWeatherChanged
    \/ RAVEOnWeatherChanged
    \/ RAVEOnMoonModeChanged
    \/ PublishReturn

SpecApp == InitApp /\ [][NextApp]_vars

\* The main loop stepping and projecting the ensemble frame after frame while
\* the audio thread runs the stream's callback at any moment.
InitAudio ==
    /\ BusIdle
    /\ AudioIdle
    /\ \E n \in 1..MaxN, r \in RandomStreams :
          SysBuilt(n, None, r) /\ AppIdle(n, "Barcelona")
    /\ UiIdle

NextAudio ==
    \/ FrameBegin
    \/ FrameStepOne
    \/ FrameUpdateNodesOne
    \/ AudioCallback
    \/ AudioRead
    \/ AudioReadRaises

SpecAudio == InitAudio /\ [][NextAudio]_vars

\* DoublePendulum.step alone, applied to one simulator in a state drawn from
\* the values below: angles next to a full turn and at rest, velocities within
\* and beyond the clamp (update_gravity rescales without clamping), light and
\* heavy, short and long bodies.
StepAngles == {-6200, 1571, 6200}
StepVelocities == {-25000, -4000, 0, 10000, 25000}
StepSizes == {5, 15}
StepFactors == {250, 2000}

StepBody(length, mass, angle, angular_velocity) ==
    [Pendulum(length, mass, angle) EXCEPT !.angular_velocity = angular_velocity]

InitStep ==
    /\ BusIdle
    /\ AppIdle(1, "Barcelona")
    /\ AudioIdle
    /\ \E a1 \in StepAngles, a2 \in StepAngles, w1 \in StepVelocities,
          w2 \in StepVelocities, size1 \in StepSizes, size2 \in StepSizes,
          gv \in Gravities, factor \in StepFactors :
          /\ double_pendulums =
                <<[pendulums |-> <<StepBody(size1, size2, a1, w1),
                                   StepBody(size2, size1, a2, w2)>>,
                   g |-> gv, temperature_factor |-> factor]>>
          /\ g = gv
    /\ temperature = None
    /\ mass_range = 5
    /\ length_range = 5
    /\ moon_mode = FALSE
    /\ nops = 0
    /\ lastOp = NoOp
    /\ pre = Snapshot
    /\ sinceFire = <<<<"none", "none">>>>
    /\ UiIdle

NextStep == \E dt \in TimeSteps : Step(dt)

SpecStep == InitStep /\ [][NextStep]_vars

\* calculate_temperature_factor alone: update_temperature_factor applies it to
\* one simulator, for temperatures below, at, between and above the two
\* corners, with moon mode on or off.
FactorTemperatures == {-100, 0, 1, 100, 175, 349, 350, 400}

InitFactor ==
    /\ BusIdle
    /\ AppIdle(1, "Barcelona")
    /\ AudioIdle
    /\ \E moon \in BOOLEAN :
          /\ double_pendulums =
                NewPendulums(1, 981, None, moon, 0, 0, angle_range, 0)
          /\ moon_mode = moon
    /\ g = 981
    /\ temperature = None
    /\ mass_range = 0
    /\ length_range = 0
    /\ nops = 0
    /\ lastOp = NoOp
    /\ pre = Snapshot
    /\ sinceFire = <<<<"none", "none">>>>
    /\ UiIdle

NextFactor == \E t \in FactorTemperatures : UpdateTemperatureFactor(t)

SpecFactor == InitFactor /\ [][NextFactor]_vars

\* update_gravity alone: one simulator that has been stepped in moon gravity
\* to some angular velocities within the clamp, then a run of gravity changes
\* with no step in between.  648 is four times 162, a ratio whose square root is exact.
GravityValues == {162, 648, 981}
GravityVelocities == {-10000, -4000, 0, 123, 9999}

InitGravity ==
    /\ BusIdle
    /\ AppIdle(1, "Barcelona")
    /\ AudioIdle
    /\ \E w1 \in GravityVelocities, w2 \in GravityVelocities :
          double_pendulums =
              <<[pendulums |-> <<StepBody(10, 10, HalfPi, w1),
                                 StepBody(10, 10, HalfPi, w2)>>,
                 g |-> 162, temperature_factor |-> 1000]>>
    /\ g = 162
    /\ temperature = None
    /\ mass_range = 0
    /\ length_range = 0
    /\ moon_mode = TRUE
    /\ nops = 0
    /\ lastOp = NoOp
    /\ pre = Snapshot
    /\ sinceFire = <<<<"none", "none">>>>
    /\ UiIdle

NextGravity == \E g_new \in GravityValues : UpdateGravity(g_new)

SpecGravity == InitGravity /\ [][NextGravity]_vars

\* process_pygame_events alone, called with every list of up to MaxEvents
\* events.
EventLists == UNION {[1..n -> PygameEventTypes] : n \in 0..MaxEvents}

InitPump == InitBus

NextPump == \E events \in EventLists : ProcessPygameEvents(events)

SpecPump == InitPump /\ [][NextPump]_vars

\* MIDISonifier between location edits: two simulators in motion, some of their
\* nodes active, the weather of the typed location fetched and dispatched, and
\* update called between the dispatches.
MidiVelocities == {0, 2500, 9999}

MidiBody(angular_velocity, active) ==
    [StepBody(10, 10, HalfPi, angular_velocity) EXCEPT !.node.active = active]

InitMidi ==
    /\ BusIdle
    /\ AppIdle(2, "Barcelona")
    /\ AudioIdle
    /\ \E w \in MidiVelocities, active \in [1..2 -> [1..2 -> BOOLEAN]] :
          double_pendulums =
              [i \in 1..2 |->
                  [pendulums |-> <<MidiBody(w, active[i][1]), MidiBody(-w, active[i][2])>>,
                   g |-> 981, temperature_factor |-> 1000]]
    /\ g = 981
    /\ temperature = None
    /\ mass_range = 0
    /\ length_range = 0
    /\ moon_mode = FALSE
    /\ nops = 0
    /\ lastOp = NoOp
    /\ pre = Snapshot
    /\ sinceFire = [i \in 1..2 |-> <<"none", "none">>]
    /\ UiIdle

NextMidi ==
    \/ \E location \in Locations : FinishLocationEntry(location)
    \/ \E resp \in Responses : OnLocationChanged(resp)
    \/ VisualizerOnWeatherUpdated
    \/ VisualizerOnMusicSettingsChanged
    \/ MIDIOnWeatherChanged
    \/ RAVEOnWeatherChanged
    \/ PublishReturn
    \/ MIDIUpdate

SpecMidi == InitMidi /\ [][NextMidi]_vars

\* The crossing latch alone: one simulator observed at arbitrary positions.
Offsets == {-6000, -1000, -400, 0, 400, 1100}
Positions == {origin_x + o : o \in Offsets}

InitNode ==
    /\ BusIdle
    /\ SysBuilt(1, None, 0)
    /\ AppIdle(1, "Barcelona")
    /\ AudioIdle
    /\ UiIdle

NextNode == \E x1 \in Positions, x2 \in Positions : UpdateNodeStatesAt(<<x1, x2>>)

SpecNode == InitNode /\ [][NextNode]_vars

(***************************************************************************)
(* Properties                                                              *)
(***************************************************************************)
Min(a, b) == IF a < b THEN a ELSE b

Updated == lastOp.name = "update"
Resized == lastOp.name = "update_number_of_pendulums"
NodeIds == {<<i, j>> : i \in 1..Len(double_pendulums), j \in 1..2}
\* The node, before and after the last update, and the position it was observed at.
NodeBefore(ij) == pre.double_pendulums[ij[1]].pendulums[ij[2]].node
NodeAfter(ij) == double_pendulums[ij[1]].pendulums[ij[2]].node
ObservedX(ij) == lastOp.arg[ij[1]][ij[2]]
Seeded(node) == node.last_x # None
OppositeSides(p, x) ==
    \/ p < origin_x /\ x > origin_x
    \/ p > origin_x /\ x < origin_x
SameSide(p, x) == (p < origin_x) = (x < origin_x)

\* C1: a publish made outside a dispatch, whose handlers do not call the bus,
\* invokes each callback subscribed to the event's kind (and not unsubscribed
\* since) exactly once, however many times it was subscribed, and invokes no
\* other callback.
C1_PublishInvokesRegisteredOnce ==
    (busPc = "returned" /\ ~reentered) =>
        /\ ~raised
        /\ \A c \in Callbacks :
              invoked[c] = IF subCount[lastEvent][c] > 0 THEN 1 ELSE 0

C1_Witness ==
    /\ busPc = "returned" /\ ~reentered
    /\ \E c \in Callbacks : subCount[lastEvent][c] >= 2 /\ invoked[c] = 1
    /\ \E c \in Callbacks, k \in BusKinds :
          k # lastEvent /\ subCount[k][c] > 0 /\ subCount[lastEvent][c] = 0
          /\ invoked[c] = 0

\* C2: a publish completes without raising an error, whatever its handlers
\* subscribe, unsubscribe or publish.
C2_PublishNeverRaises == ~raised

\* C3: a seeded, untriggered node observed on the other side of the origin is
\* left active; it is left triggered exactly when the new position is within
\* 2 * node_threshold of the origin.
C3_CrossingFires ==
    Updated => \A ij \in NodeIds :
        LET b == NodeBefore(ij)
            a == NodeAfter(ij)
            x == ObservedX(ij)
        IN  (Seeded(b) /\ OppositeSides(b.last_x, x) /\ ~b.triggered) =>
                /\ a.active
                /\ a.triggered <=> (Abs(x - origin_x) <= 2 * node_threshold)

C3_Witness ==
    /\ Updated
    /\ \E ij \in NodeIds :
          /\ Seeded(NodeBefore(ij)) /\ ~NodeBefore(ij).triggered
          /\ OppositeSides(NodeBefore(ij).last_x, ObservedX(ij))
          /\ Abs(ObservedX(ij) - origin_x) > 2 * node_threshold
          /\ NodeAfter(ij).active /\ ~NodeAfter(ij).triggered
    /\ \E ij \in NodeIds :
          /\ Seeded(NodeBefore(ij)) /\ ~NodeBefore(ij).triggered
          /\ OppositeSides(NodeBefore(ij).last_x, ObservedX(ij))
          /\ Abs(ObservedX(ij) - origin_x) <= 2 * node_threshold
          /\ NodeAfter(ij).active /\ NodeAfter(ij).triggered

\* C4: a call on a seeded node that stayed on its side of the origin, or that
\* was already triggered when the call began, leaves the node inactive.
C4_NoCrossingOrTriggeredClearsActive ==
    Updated => \A ij \in NodeIds :
        LET b == NodeBefore(ij)
        IN  (Seeded(b) /\ (SameSide(b.last_x, ObservedX(ij)) \/ b.triggered)) =>
                ~NodeAfter(ij).active

\* C5: once a node has fired, no later call leaves it active before a position
\* farther than 2 * node_threshold from the origin has been observed (at or
\* after the firing call): a node left active with no such position seen has
\* fired in this very call.
C5_SinglePulsePerCrossing ==
    Updated => \A ij \in NodeIds :
        (sinceFire[ij[1]][ij[2]] = "near" /\ NodeAfter(ij).active) =>
            Fires(NodeBefore(ij), ObservedX(ij))

\* C6: on a seeded node a call clears triggered when its position is farther
\* than 2 * node_threshold from the origin, crossing or not, and never clears
\* it otherwise.
C6_RearmExactlyWhenFar ==
    Updated => \A ij \in NodeIds :
        LET b == NodeBefore(ij)
            a == NodeAfter(ij)
            x == ObservedX(ij)
        IN  Seeded(b) =>
                /\ (Abs(x - origin_x) > 2 * node_threshold) => ~a.triggered
                /\ (Abs(x - origin_x) <= 2 * node_threshold /\ b.triggered) => a.triggered

C6_Witness ==
    /\ Updated
    /\ \E ij \in NodeIds :
          /\ NodeBefore(ij).triggered /\ ~NodeAfter(ij).triggered
          /\ Abs(ObservedX(ij) - origin_x) > 2 * node_threshold
    /\ \E ij \in NodeIds :
          /\ NodeBefore(ij).triggered /\ NodeAfter(ij).triggered
          /\ Abs(ObservedX(ij) - origin_x) = 2 * node_threshold

\* C7: the first call on an unseeded node leaves it inactive and untriggered
\* wherever it is observed, and every call records the observed position as
\* last_x.
C7_FirstCallSeedsOnly ==
    Updated => \A ij \in NodeIds :
        /\ NodeAfter(ij).last_x = ObservedX(ij)
        /\ ~Seeded(NodeBefore(ij)) => (~NodeAfter(ij).active /\ ~NodeAfter(ij).triggered)

C7_Witness ==
    /\ Updated
    /\ \E ij \in NodeIds :
          /\ ~Seeded(NodeBefore(ij))
          /\ Abs(ObservedX(ij) - origin_x) > 2 * node_threshold
          /\ NodeAfter(ij).last_x = ObservedX(ij)
          /\ ~NodeAfter(ij).active /\ ~NodeAfter(ij).triggered

\* C8: every simulator's g equals the ensemble's g.
C8_SimulatorsShareGravity ==
    \A i \in 1..Len(double_pendulums) : double_pendulums[i].g = g

\* A simulator that predates a gravity update and one added after it.
C8_Witness ==
    /\ Resized
    /\ Len(pre.double_pendulums) >= 1
    /\ Len(double_pendulums) > Len(pre.double_pendulums)
    /\ g = 162
    /\ \A i \in 1..Len(double_pendulums) : double_pendulums[i].g = 162

\* C9: update_temperature_factor(t) stores t as the ensemble's temperature, and
\* the simulators a later resize appends have the temperature_factor of the
\* simulators already present.
C9_SharedTemperatureUpdated ==
    /\ lastOp.name = "update_temperature_factor" => temperature = lastOp.arg
    /\ (Resized /\ Len(pre.double_pendulums) >= 1) =>
          \A i \in 1..Len(double_pendulums) :
              double_pendulums[i].temperature_factor
                  = double_pendulums[1].temperature_factor

\* A simulator as DoublePendulum.__init__ leaves it, given g and the ranges.
BuiltFrom(dp, gv, mr, lr, ar) ==
    /\ dp.g = gv
    /\ \A j \in 1..2 :
          /\ dp.pendulums[j].mass \in (10 - mr)..(10 + mr)
          /\ dp.pendulums[j].length \in (10 - lr)..(10 + lr)
          /\ dp.pendulums[j].angle \in (HalfPi + ar[1])..(HalfPi + ar[2])
          /\ dp.pendulums[j].angular_velocity = 0
          /\ dp.pendulums[j].node = Node

\* C10: update_number_of_pendulums(n), n >= 1, on k simulators leaves n
\* simulators; the first min(n, k) are the former ones, unchanged; the others
\* are built from the ensemble's g, mass_range, length_range and angle_range;
\* with n = k nothing changes.
C10_ResizeKeepsPrefix ==
    (Resized /\ lastOp.arg >= 1) =>
        LET n == lastOp.arg
            old == pre.double_pendulums
            k == Len(old)
        IN  /\ Len(double_pendulums) = n
            /\ \A i \in 1..Min(n, k) : double_pendulums[i] = old[i]
            /\ \A i \in (k + 1)..n :
                  BuiltFrom(double_pendulums[i], pre.g, pre.mass_range,
                            pre.length_range, angle_range)
            /\ n = k => double_pendulums = old
            /\ Snapshot = [pre EXCEPT !.double_pendulums = double_pendulums]

\* An ensemble that has moved grows by simulators drawn from a widened mass range.
C10_Witness ==
    /\ Resized
    /\ Len(pre.double_pendulums) >= 1
    /\ Len(double_pendulums) > Len(pre.double_pendulums)
    /\ double_pendulums[1] = pre.double_pendulums[1]
    /\ double_pendulums[1].pendulums[1].angular_velocity # 0
    /\ mass_range = 5
    /\ double_pendulums[Len(double_pendulums)].pendulums[1].mass # 10

\* C11: update_number_of_pendulums(n) with n < 1 is rejected and leaves the
\* simulator list as it was; the ensemble always holds at least one simulator.
C11_NonPositiveCountRejected ==
    /\ (Resized /\ lastOp.arg < 1) => double_pendulums = pre.double_pendulums
    /\ Len(double_pendulums) >= 1

\* No publish is in progress: the sidebar's publish, if any, has returned.
Quiescent == appStack = <<>>

\* The number of events of the given type published since the edit began.
PublishedCount(type) ==
    Cardinality({i \in 1..Len(edit.published) : edit.published[i].type = type})

\* A location edit was dispatched to its end and its fetch failed / succeeded.
LocationEditFailed ==
    Quiescent /\ edit.kind = "LOCATION_CHANGED" /\ edit.fetch = "failed"
LocationEditSucceeded ==
    Quiescent /\ edit.kind = "LOCATION_CHANGED" /\ edit.fetch = "ok"

\* C12: while moon mode is on and no event is being dispatched, every
\* simulator's temperature_factor is 1.0.
C12_MoonModeNeutralFactor ==
    (Quiescent /\ moon_mode) =>
        \A i \in 1..Len(double_pendulums) : double_pendulums[i].temperature_factor = 1000

\* C13: after a location edit whose fetch failed, Config.location,
\* Config.temperature, Config.weather_condition and WeatherAPI.location are
\* what they were before the edit, and no WEATHER_UPDATED was published.
C13_FailedFetchReverts ==
    LocationEditFailed =>
        /\ config.location = edit.config.location
        /\ config.temperature = edit.config.temperature
        /\ config.weather_condition = edit.config.weather_condition
        /\ weather_api.location = edit.weather_api.location
        /\ PublishedCount("WEATHER_UPDATED") = 0

\* C14: a location edit whose fetch failed published exactly one
\* WEATHER_FETCH_ERROR, carrying the rejected location and the message
\* 'Failed to fetch weather for <rejected location>'; one whose fetch
\* succeeded published none and left WeatherAPI.location at the new location.
C14_OneErrorEventPerFailedFetch ==
    /\ LocationEditFailed =>
          /\ PublishedCount("WEATHER_FETCH_ERROR") = 1
          /\ \A i \in 1..Len(edit.published) :
                edit.published[i].type = "WEATHER_FETCH_ERROR" =>
                    /\ edit.published[i].data.location = edit.data
                    /\ edit.published[i].data.error_message
                           = <<"Failed to fetch weather for ", edit.data>>
    /\ LocationEditSucceeded =>
          /\ PublishedCount("WEATHER_FETCH_ERROR") = 0
          /\ weather_api.location = edit.data

\* Both outcomes of the fetch, for an edit that names a location other than
\* the one WeatherAPI held.
C14_Witness ==
    /\ LocationEditFailed
    /\ edit.data # edit.weather_api.location
    /\ PublishedCount("WEATHER_FETCH_ERROR") = 1
    /\ weather_api.location = edit.weather_api.location

ReadsOf(dps) ==
    [k \in 1..(2 * Len(dps)) |-> Kinematics(dps[(k + 1) \div 2], ((k - 1) % 2) + 1)]

\* C16: the values a finished generate_latents has read are, all of them, the
\* values of one completed frame of the main loop.
C16_LatentsFromOneFrame ==
    audio.pc = "done" =>
        \E f \in 1..Len(frame.done) : audio.reads = ReadsOf(frame.done[f])

\* The operation just made, on simulator i: the simulator before and after.
Before(i) == pre.double_pendulums[i]
After(i) == double_pendulums[i]

\* Between the simulators before and after the last operation, body fields
\* other than `field', g and temperature_factor are the same.
OnlyBodyFieldChanged(field) ==
    /\ Len(double_pendulums) = Len(pre.double_pendulums)
    /\ \A i \in 1..Len(double_pendulums) :
          /\ After(i).g = Before(i).g
          /\ After(i).temperature_factor = Before(i).temperature_factor
          /\ \A j \in 1..2 :
                [After(i).pendulums[j] EXCEPT ![field] = 0]
                    = [Before(i).pendulums[j] EXCEPT ![field] = 0]

\* C17: update_mass_range(r) leaves every mass within [1 - r, 1 + r], stores r
\* as the ensemble's mass_range and changes nothing else (lengths, angles,
\* velocities, nodes, g, temperature factors, the other shared parameters);
\* update_length_range(r) does the same for the lengths.
C17_RangeUpdateFrame ==
    /\ lastOp.name = "update_mass_range" =>
          /\ \A i \in 1..Len(double_pendulums) : \A j \in 1..2 :
                After(i).pendulums[j].mass \in (10 - lastOp.arg)..(10 + lastOp.arg)
          /\ mass_range = lastOp.arg
          /\ OnlyBodyFieldChanged("mass")
          /\ Snapshot = [pre EXCEPT !.double_pendulums = double_pendulums,
                                     !.mass_range = mass_range]
    /\ lastOp.name = "update_length_range" =>
          /\ \A i \in 1..Len(double_pendulums) : \A j \in 1..2 :
                After(i).pendulums[j].length \in (10 - lastOp.arg)..(10 + lastOp.arg)
          /\ length_range = lastOp.arg
          /\ OnlyBodyFieldChanged("length")
          /\ Snapshot = [pre EXCEPT !.double_pendulums = double_pendulums,
                                     !.length_range = length_range]

\* A moving ensemble whose masses are redrawn from a widened range.
C17_Witness ==
    /\ lastOp.name = "update_mass_range"
    /\ lastOp.arg = 5
    /\ After(1).pendulums[1].mass # Before(1).pendulums[1].mass
    /\ After(1).pendulums[1].angular_velocity # 0
    /\ After(1).pendulums[1].length # 10

\* C18: after update_temperature_factor(t) every simulator's temperature_factor
\* is calculate_temperature_factor(t), every velocity is the former one times
\* new factor / old factor, clamped to [-10, 10], nothing else has changed,
\* and the same call made again would change nothing.
C18_TemperatureRescale ==
    lastOp.name = "update_temperature_factor" =>
        LET new_factor == calculate_temperature_factor(moon_mode, lastOp.arg)
        IN  /\ Len(double_pendulums) = Len(pre.double_pendulums)
            /\ \A i \in 1..Len(double_pendulums) :
                  /\ After(i).temperature_factor = new_factor
                  /\ After(i).g = Before(i).g
                  /\ \A j \in 1..2 :
                        LET scaled == Div(Before(i).pendulums[j].angular_velocity
                                          * new_factor, Before(i).temperature_factor)
                        IN  /\ After(i).pendulums[j].angular_velocity
                                  = (IF scaled > 10000 THEN 10000
                                     ELSE IF scaled < -10000 THEN -10000 ELSE scaled)
                            /\ [After(i).pendulums[j] EXCEPT !.angular_velocity = 0]
                                  = [Before(i).pendulums[j] EXCEPT !.angular_velocity = 0]
            /\ <<g, mass_range, length_range>>
                  = <<pre.g, pre.mass_range, pre.length_range>>
            /\ update_temperature_all(double_pendulums, moon_mode, lastOp.arg)
                  = double_pendulums

\* A velocity the rescaling pushes past the bound, and one it shrinks.
C18_Witness ==
    /\ lastOp.name = "update_temperature_factor"
    /\ \E i \in 1..Len(double_pendulums) :
          /\ Before(i).pendulums[1].angular_velocity < -5000
          /\ After(i).temperature_factor = 2000
          /\ Before(i).temperature_factor = 1000
          /\ After(i).pendulums[1].angular_velocity = -10000

Stepped == lastOp.name = "step"

\* C19: after step(dt) both bodies' angular velocities lie within [-10, 10],
\* whatever they were before.
C19_StepClampsVelocities ==
    Stepped =>
        \A i \in 1..Len(double_pendulums) : \A j \in 1..2 :
            /\ After(i).pendulums[j].angular_velocity <= 10000
            /\ After(i).pendulums[j].angular_velocity >= -10000

\* Velocities beyond the bound on both sides before the step, at it after.
C19_Witness ==
    /\ Stepped
    /\ Before(1).pendulums[1].angular_velocity = 25000
    /\ Before(1).pendulums[2].angular_velocity = -25000
    /\ After(1).pendulums[2].angular_velocity = -10000
    /\ After(1).pendulums[1].angular_velocity > 0

\* C20: when the first body's integrated angle reaches a full turn, its angle
\* after the step lies in (-2*pi, 2*pi] and its velocity is 0.90 times the
\* clamped velocity; otherwise angle and velocity are the integrated and the
\* clamped ones; the second body always keeps its integrated angle and clamped
\* velocity; after every step the first body's angle is below 2*pi in magnitude.
C20_FullSpinWrapsAndDamps ==
    Stepped =>
        \A i \in 1..Len(double_pendulums) :
            LET dt == lastOp.arg
                a1 == IntegratedAngle(Before(i), dt, 1)
                w1 == ClampedVelocity(Before(i), dt, 1)
                p1 == After(i).pendulums[1]
                p2 == After(i).pendulums[2]
            IN  /\ Abs(a1) >= TwoPi =>
                      /\ p1.angle > -TwoPi /\ p1.angle <= TwoPi
                      /\ p1.angular_velocity = Div(w1 * 90, 100)
                /\ Abs(a1) < TwoPi =>
                      /\ p1.angle = a1
                      /\ p1.angular_velocity = w1
                /\ p2.angle = IntegratedAngle(Before(i), dt, 2)
                /\ p2.angular_velocity = ClampedVelocity(Before(i), dt, 2)
                /\ Abs(p1.angle) < TwoPi

\* A backward full spin of the first body, wrapped to a positive angle and
\* damped, while the second body passes a full turn unwrapped and undamped.
C20_Witness ==
    /\ Stepped
    /\ IntegratedAngle(Before(1), lastOp.arg, 1) <= -TwoPi
    /\ After(1).pendulums[1].angle > 0
    /\ After(1).pendulums[1].angular_velocity = -9000
    /\ Abs(After(1).pendulums[2].angle) >= TwoPi
    /\ After(1).pendulums[2].angular_velocity = 10000

RestoredVelocity(w0, w2) == Abs(w2 - w0) * 1000 <= 2 * Abs(w0) + 4000

\* C22: update_gravity(g_new) multiplies every angular velocity by
\* sqrt(g_new / g_old) and sets g on the ensemble and on every simulator; an
\* update_gravity(g1) followed, with no step in between, by update_gravity(g0)
\* for the gravity g0 held before the first call restores g and every angular
\* velocity.
C22_GravityRescaleRoundTrip ==
    [][(lastOp'.name = "update_gravity" /\ nops' = nops + 1) =>
          LET g_new == lastOp'.arg
              ratio == SqrtRatio(g_new, g)
          IN  /\ g' = g_new
              /\ \A i \in 1..Len(double_pendulums) :
                    /\ double_pendulums'[i].g = g_new
                    /\ \A j \in 1..2 :
                          double_pendulums'[i].pendulums[j].angular_velocity =
                              Div(double_pendulums[i].pendulums[j].angular_velocity
                                  * ratio, 1000)
              /\ (lastOp.name = "update_gravity" /\ g_new = pre.g) =>
                    /\ g' = pre.g
                    /\ \A i \in 1..Len(double_pendulums) :
                          /\ double_pendulums'[i].g = pre.double_pendulums[i].g
                          /\ \A j \in 1..2 :
                                RestoredVelocity(
                                    pre.double_pendulums[i].pendulums[j].angular_velocity,
                                    double_pendulums'[i].pendulums[j].angular_velocity)
      ]_vars

\* Earth gravity and back: the ensemble starts at 1.62 with a body at 9.999
\* rad/s, the first call went to 9.81, which takes the body beyond the clamp
\* of step, and the second returned to 1.62.
C22_Witness ==
    /\ nops = 2
    /\ lastOp = [name |-> "update_gravity", arg |-> 162]
    /\ pre.g = 981
    /\ g = 162
    /\ double_pendulums[1].g = 162
    /\ pre.double_pendulums[1].pendulums[1].angular_velocity = 24597
    /\ RestoredVelocity(9999, double_pendulums[1].pendulums[1].angular_velocity)

\* C23: in every state reachable through the ensemble's operations, step
\* completes without dividing by zero: the denominators
\* L * (2*m1 + m2 - m2*cos(2*(a1 - a2))) are guarded, so that no call of step
\* leaves through ZeroDivisionError.
C23_StepNeverDividesByZero == lastOp.name # "step_raised"

\* With the ranges the sidebar sliders allow, every denominator is positive.
SliderRangeDenominatorsPositive ==
    \A i \in 1..Len(double_pendulums) :
        Denom(double_pendulums[i], 1) > 0 /\ Denom(double_pendulums[i], 2) > 0

\* The positions of the QUIT events in the list of the last call.
Quits == {i \in 1..Len(pump.events) : pump.events[i] = "QUIT"}

\* The number of events before the first QUIT (all of them if there is none).
BeforeFirstQuit ==
    IF Quits = {} THEN Len(pump.events)
    ELSE (CHOOSE i \in Quits : \A k \in Quits : i <= k) - 1

\* C24: process_pygame_events(events) returns True exactly when the list holds
\* no QUIT event; it publishes one PYGAME_EVENT per event, in list order, for
\* the events before the first QUIT, and nothing for the QUIT or after it.
C24_EventsPublishedUpToQuit ==
    pump.called =>
        /\ pump.result = (Quits = {})
        /\ Len(pump.published) = BeforeFirstQuit
        /\ \A i \in 1..BeforeFirstQuit :
              pump.published[i] = Event("PYGAME_EVENT", pump.events[i])

\* A list with an event after its QUIT: one event published, False returned.
C24_Witness ==
    /\ pump.called
    /\ pump.events = <<"KEYDOWN", "QUIT", "MOUSEMOTION">>
    /\ pump.published = <<Event("PYGAME_EVENT", "KEYDOWN")>>
    /\ pump.result = FALSE

\* The sign of a number: -1, 0 or 1.
Sign(x) == IF x < 0 THEN -1 ELSE IF x > 0 THEN 1 ELSE 0

\* C25: _update_node_states detects a crossing exactly when
\* sign(last_x - origin_x) differs from sign(x - origin_x), positions exactly on
\* the origin included: a seeded node that is not triggered fires (active and
\* triggered are set) in exactly those calls.
C25_CrossingIffSignsDiffer ==
    Updated => \A ij \in NodeIds :
        LET b == NodeBefore(ij)
            a == NodeAfter(ij)
            x == ObservedX(ij)
        IN  (Seeded(b) /\ ~b.triggered) =>
                (a.active <=> Sign(b.last_x - origin_x) # Sign(x - origin_x))

\* C26: after any sequence of WEATHER_UPDATED events handled by MIDISonifier,
\* every note MIDISonifier.update sends has a pitch class of the sonifier's
\* current key, scale and mode (the one written to Config), comes from the
\* notes below 64 for an even-indexed node and from the notes 64 and above for
\* an odd-indexed one, and has a MIDI velocity within 30 .. 127.
C26_NotesInCurrentKey ==
    /\ Quiescent =>
          config.key_scale_mode =
              [key |-> midi.key, scale |-> midi.scale, mode |-> midi.mode]
    /\ \A k \in 1..Len(midi.sent) :
          LET message == midi.sent[k]
          IN  /\ message.note % 12 \in allowed_classes(midi.sent_in.key,
                                                        midi.sent_in.scale,
                                                        midi.sent_in.mode)
              /\ message.channel % 2 = 0 => message.note < 64
              /\ message.channel % 2 = 1 => message.note >= 64
              /\ message.velocity >= 30 /\ message.velocity <= 127

\* The part of C26 that does not depend on the key: the half a note is drawn
\* from and the range of its velocity.
NotesInHalvesAndRange ==
    \A k \in 1..Len(midi.sent) :
        LET message == midi.sent[k]
        IN  /\ message.channel % 2 = 0 => message.note < 64
            /\ message.channel % 2 = 1 => message.note >= 64
            /\ message.velocity >= 30 /\ message.velocity <= 127

\* C27: in every state reachable from a freshly built ensemble by step,
\* update_gravity, update_temperature_factor, update_number_of_pendulums,
\* update_mass_range and update_length_range, every body's angular velocity
\* is at most MAX_ANGULAR_VELOCITY in magnitude.
C27_VelocitiesAlwaysWithinClamp ==
    \A i \in 1..Len(double_pendulums) : \A j \in 1..2 :
        Abs(double_pendulums[i].pendulums[j].angular_velocity) <= MAX_ANGULAR_VELOCITY

\* C30: while WEATHER_FETCH_ERROR is being delivered (publish is calling its
\* handlers), the speculative location change has already been reverted:
\* WeatherAPI.location and Config.location hold the previous location.
C30_ErrorDeliveredAfterRevert ==
    \A k \in 1..Len(appStack) :
        appStack[k].type = "WEATHER_FETCH_ERROR" =>
            /\ weather_api.location = appStack[k].old_location
            /\ config.location = appStack[k].old_location


\* The sidebar's count slider grows the ensemble between two frames
\* (update_number_of_pendulums appends to the list the callback iterates).
AudioGrow ==
    /\ frame.phase = "idle"
    /\ \E n \in (Len(double_pendulums) + 1)..MaxN, r \in RandomStreams :
          UpdateNumberOfPendulums(n, r)

\* One simulator after the first complete frame (step, then the node-state
\* update), the stream being started only then: every node has been observed.
InitAudioGrowth ==
    /\ BusIdle
    /\ \E r \in RandomStreams :
          LET built == NewPendulums(1, 981, None, FALSE, 0, 0, angle_range, r)
              stepped == DoublePendulumStep(built[1], FrameTime)
              xs == convert_to_screen_coords(stepped)
              observed == <<update_node_states(stepped, xs)>>
          IN  /\ double_pendulums = observed
              /\ sinceFire = <<[j \in 1..2 |->
                     SinceFireAfter("none", stepped.pendulums[j].node, xs[j])]>>
              /\ frame = [phase |-> "idle", i |-> 0, done |-> <<observed>>]
    /\ g = 981
    /\ temperature = None
    /\ mass_range = 0
    /\ length_range = 0
    /\ moon_mode = FALSE
    /\ nops = 0
    /\ lastOp = NoOp
    /\ pre = Snapshot
    /\ audio = NewAudio
    /\ AppIdle(1, "Barcelona")
    /\ UiIdle

NextAudioGrowth ==
    \/ FrameBegin
    \/ FrameStepOne
    \/ FrameUpdateNodesOne
    \/ AudioCallback
    \/ AudioRead
    \/ AudioReadRaises
    \/ AudioGrow

SpecAudioGrowth == InitAudioGrowth /\ [][NextAudioGrowth]_vars

\* C29: whenever the audio callback is running generate_latents, every body of
\* every simulator currently in the ensemble has a set last_x (stream started
\* after the first frame, the ensemble growing between frames).
C29_CallbackReadsObservedNodes ==
    audio.pc = "reading" =>
        \A i \in 1..Len(double_pendulums) : \A j \in 1..2 :
            double_pendulums[i].pendulums[j].node.last_x # None


\* What the dispatch of a user edit is about: Config, the bookkeeping of
\* WeatherAPI, the ensemble, the sonifiers and the visualizer's texts.
Dispatched ==
    [config |-> config, moon_mode |-> moon_mode, weather_api |-> weather_api,
     ensemble |-> Snapshot, midi |-> midi, view |-> view, rave |-> rave]

\* The state before the edit with the sidebar's assignment of Config made.
EditBase ==
    [config |-> edit.config, moon_mode |-> edit.moon_mode,
     weather_api |-> edit.weather_api, ensemble |-> edit.before.ensemble,
     midi |-> edit.before.midi, view |-> edit.before.view,
     rave |-> edit.before.rave]

\* The outcome of MOON_MODE_CHANGED(m), computed from the state before it.
MoonOutcome(m) ==
    LET new_gravity == IF m THEN 162 ELSE 981
        b == edit.before
    IN  [EditBase EXCEPT
            !.moon_mode = m,
            !.ensemble.double_pendulums =
                update_gravity_all(b.ensemble.double_pendulums, b.ensemble.g,
                                   new_gravity),
            !.ensemble.g = new_gravity,
            !.view.background_color = get_background_color(edit.config, m),
            !.view.gravity_text = update_gravity_text(m),
            !.view.location_weather_text =
                update_location_weather_text(edit.config, m),
            !.rave.weights_path = update_settings(edit.config, m)]

\* The outcomes of the slider edits, one per draw of the random stream.
SliderOutcomes ==
    LET b == edit.before.ensemble
        cfg == edit.config
        moon == edit.moon_mode
    IN  IF edit.kind = "MASS_RANGE_CHANGED"
        THEN {[EditBase EXCEPT
                  !.config = edited(cfg, "mass_range", edit.data),
                  !.ensemble.double_pendulums =
                      update_mass_all(b.double_pendulums, edit.data, r),
                  !.ensemble.mass_range = edit.data] : r \in RandomStreams}
        ELSE IF edit.kind = "LENGTH_RANGE_CHANGED"
        THEN {[EditBase EXCEPT
                  !.config = edited(cfg, "length_range", edit.data),
                  !.ensemble.double_pendulums =
                      update_length_all(b.double_pendulums, edit.data, r),
                  !.ensemble.length_range = edit.data] : r \in RandomStreams}
        ELSE {[EditBase EXCEPT
                  !.config = edited(cfg, "num_double_pendulums", edit.data),
                  !.ensemble.double_pendulums =
                      resize(b.double_pendulums, edit.data, b.g, b.temperature,
                             moon, b.mass_range, b.length_range, angle_range, r)]
                 : r \in RandomStreams}

\* The outcome of LOCATION_CHANGED(location) whose fetch published
\* WEATHER_UPDATED(weather): the handlers of WEATHER_UPDATED and of the
\* MUSIC_SETTINGS_CHANGED nested in it have all run.
WeatherOutcome(location, weather) ==
    LET b == edit.before
        moon == edit.moon_mode
        fetched == [edit.config EXCEPT !.location = location,
                                       !.weather_condition = weather.condition,
                                       !.temperature = weather.temperature]
        sonifier == on_weather_changed(b.midi, weather.condition)
        cfg == [fetched EXCEPT !.key_scale_mode =
                   [key |-> sonifier.key, scale |-> sonifier.scale,
                    mode |-> sonifier.mode]]
    IN  [EditBase EXCEPT
            !.config = cfg,
            !.weather_api = [location |-> location,
                             temperature |-> weather.temperature,
                             weather_condition |-> weather.condition],
            !.ensemble.double_pendulums =
                update_temperature_all(b.ensemble.double_pendulums, moon,
                                       weather.temperature),
            !.ensemble.temperature =
                temperature_after_update(b.ensemble.temperature, weather.temperature),
            !.midi = sonifier,
            !.view.location_weather_text = update_location_weather_text(cfg, moon),
            !.view.background_color = get_background_color(cfg, moon),
            !.view.music_text = update_music_text(cfg),
            !.rave.weights_path = update_settings(cfg, moon)]

\* The outcome of LOCATION_CHANGED whose fetch failed: WEATHER_FETCH_ERROR has
\* no handler, and _on_location_changed restores WeatherAPI's location.
ErrorOutcome ==
    [EditBase EXCEPT
        !.config.location = edit.weather_api.location,
        !.weather_api = [location |-> edit.weather_api.location,
                         temperature |-> edit.config.temperature,
                         weather_condition |-> edit.config.weather_condition]]

\* C28: for every event kind, the state reached when publish returns (Config,
\* the ensemble's shared parameters and simulators, the sonifiers'
\* key/scale/mode and model selection, the visualizer's texts and colour) is
\* the one the event and the state before it determine, whatever the order in
\* which the bus invoked the handlers.
C28_OutcomeIndependentOfHandlerOrder ==
    (Quiescent /\ edit.kind # "none") =>
        IF edit.kind = "MOON_MODE_CHANGED"
        THEN Dispatched = MoonOutcome(edit.data)
        ELSE IF edit.kind = "LOCATION_CHANGED"
        THEN IF edit.fetch = "ok"
             THEN Dispatched = WeatherOutcome(edit.data, edit.published[2].data)
             ELSE Dispatched = ErrorOutcome
        ELSE Dispatched \in SliderOutcomes

\* A fetch that returned "Rain" has been dispatched to the three handlers of
\* WEATHER_UPDATED and to the handler of the nested MUSIC_SETTINGS_CHANGED.
C28_Witness ==
    /\ LocationEditSucceeded
    /\ edit.published[2].data.condition = "Rain"
    /\ Cardinality(edit.completed) = 5
    /\ midi.key = "E_FLAT"
    /\ midi.key # edit.before.midi.key
    /\ rave.weights_path # edit.before.rave.weights_path
    /\ view.music_text # edit.before.view.music_text
    /\ view.location_weather_text # edit.before.view.location_weather_text
====
